---- MODULE Spec2Model ----
(***************************************************************************)
(* Fithub browser client: personal-record (PR) detection over a workout    *)
(* history (services/workoutApi.ts).  calculatePRs sorts a copy of the     *)
(* records by date, replays every set in chronological order keeping two   *)
(* running maxima per exercise name, stores a PRInfo entry for every       *)
(* record-setting set under a string key, and in a second pass marks the   *)
(* entries that are still the current best.                                *)
(***************************************************************************)
EXTENDS Integers, Sequences, FiniteSets, TLC

(***************************************************************************)
(* Bounds of the model: the size of the record list calculatePRs is called *)
(* with.  A list holds at most one record per date of Dates.               *)
(***************************************************************************)
MaxTotalExercises == 2

MaxTotalSets == 2

(***************************************************************************)
(* Input domains.  Dates are ISO YYYY-MM-DD strings, deliberately listed   *)
(* out of chronological order; the two names differ only in case; the      *)
(* weights are 0 kg and two positive weights; the reps are 0 and 1.        *)
(***************************************************************************)
Dates == {"2024-02-01", "2023-12-25"}

Names == {"Squat", "squat"}

Weights == {0, 1, 2}

Reps == {0, 1}

\* TrainingSet: the fields calculatePRs reads.
TrainingSet == [weight : Weights, reps : Reps]

RECURSIVE Sum(_)
Sum(ns) == IF ns = <<>> THEN 0 ELSE Head(ns) + Sum(Tail(ns))

RECURSIVE CountLists(_, _)
\* The sequences of at most n naturals whose sum is at most t.
CountLists(n, t) ==
  {<<>>} \cup
  IF n = 0 THEN {}
  ELSE UNION { { <<k>> \o rest : rest \in CountLists(n - 1, t - k) } : k \in 0..t }

RECURSIVE Shapes(_, _, _)
\* The shapes of a list of at most n records with at most e exercises and at
\* most t sets in total: per record, the number of sets of each exercise.
Shapes(n, e, t) ==
  {<<>>} \cup
  IF n = 0 THEN {}
  ELSE UNION { { <<c>> \o rest : rest \in Shapes(n - 1, e - Len(c), t - Sum(c)) } :
               c \in CountLists(e, t) }

RECURSIVE ExerciseLists(_)
\* The exercises arrays of one record whose exercises hold c[1], c[2], ... sets.
ExerciseLists(c) ==
  IF c = <<>> THEN {<<>>}
  ELSE { <<[name |-> nm, sets |-> ss]>> \o rest :
         nm \in Names, ss \in [1..Head(c) -> TrainingSet],
         rest \in ExerciseLists(Tail(c)) }

RECURSIVE ExerciseListsOfShape(_)
\* One exercises array per record of the shape.
ExerciseListsOfShape(sh) ==
  IF sh = <<>> THEN {<<>>}
  ELSE { <<b>> \o rest :
         b \in ExerciseLists(Head(sh)), rest \in ExerciseListsOfShape(Tail(sh)) }

\* n pairwise different dates in any order: the data model allows one record
\* per date, and the argument need not be sorted.
DateSeqs(n) == { d \in [1..n -> Dates] : \A i, j \in 1..n : d[i] = d[j] => i = j }

\* TrainingRecord[]: the fields calculatePRs reads.
TrainingRecords(d, b) == [i \in 1..Len(b) |-> [date |-> d[i], exercises |-> b[i]]]

(***************************************************************************)
(* Date parsing: new Date("YYYY-MM-DD").getTime().                          *)
(***************************************************************************)
DigitVal(c) ==
  CASE c = "0" -> 0 [] c = "1" -> 1 [] c = "2" -> 2 [] c = "3" -> 3 [] c = "4" -> 4
    [] c = "5" -> 5 [] c = "6" -> 6 [] c = "7" -> 7 [] c = "8" -> 8 [] c = "9" -> 9

RECURSIVE ParseInt(_)
\* The decimal number written by a string of digits.
ParseInt(s) ==
  IF Len(s) = 0 THEN 0
  ELSE 10 * ParseInt(SubSeq(s, 1, Len(s) - 1)) + DigitVal(SubSeq(s, Len(s), Len(s)))

\* Days from 1970-01-01 to the proleptic Gregorian date y-m-d.
DaysFromCivil(y, m, d) ==
  LET yy  == IF m <= 2 THEN y - 1 ELSE y
      era == yy \div 400
      yoe == yy - era * 400
      mp  == IF m > 2 THEN m - 3 ELSE m + 9
      doy == (153 * mp + 2) \div 5 + d - 1
      doe == yoe * 365 + yoe \div 4 - yoe \div 100 + doy
  IN  era * 146097 + doe - 719468

\* new Date(date).getTime() for a date-only ISO string (UTC midnight), counted
\* in days: the millisecond value is this number times 86400000, which the
\* comparator's subtraction orders the same way.
GetTime(date) ==
  DaysFromCivil(ParseInt(SubSeq(date, 1, 4)),
                ParseInt(SubSeq(date, 6, 7)),
                ParseInt(SubSeq(date, 9, 10)))

\* The sort comparator (a, b) => getTime(a.date) - getTime(b.date).
CompareByDate(a, b) == GetTime(a.date) - GetTime(b.date)

RECURSIVE InsertSorted(_, _)
\* r inserted into the sorted list s after every element that does not compare
\* greater than it (Array.prototype.sort is stable).
InsertSorted(s, r) ==
  IF s = <<>> THEN <<r>>
  ELSE IF CompareByDate(Head(s), r) > 0 THEN <<r>> \o s
  ELSE <<Head(s)>> \o InsertSorted(Tail(s), r)

RECURSIVE SortAscending(_)
SortAscending(rs) ==
  IF rs = <<>> THEN <<>>
  ELSE InsertSorted(SortAscending(SubSeq(rs, 1, Len(rs) - 1)), rs[Len(rs)])

\* Fault injection for SortByDate: the records are replayed in input order.
SortByDateUnsorted(rs) == rs

\* const sortedRecords = [...records].sort(byDate): a sorted copy.
SortByDate(rs) == SortAscending(rs)

\* Fault injection for SpreadAndSort: records.sort(byDate) without the spread,
\* which sorts the argument array itself and returns it.
SortInPlace(rs) == [records |-> SortByDate(rs), sortedRecords |-> SortByDate(rs)]

\* [...records].sort(byDate): the spread makes a new array, sort reorders that
\* new array in place and returns it; the argument array keeps its elements in
\* their order.  The two arrays after the statement.
SpreadAndSort(rs) == [records |-> rs, sortedRecords |-> SortByDate(rs)]

(***************************************************************************)
(* PR keys and entries.                                                    *)
(***************************************************************************)
\* Fault injection for getPRKey: the three parts are joined without delimiter.
getPRKeyWithoutDelimiter(date, exerciseName, setIndex) ==
  date \o exerciseName \o ToString(setIndex)

\* `${date}_${exerciseName}_${setIndex}`
getPRKey(date, exerciseName, setIndex) ==
  date \o "_" \o exerciseName \o "_" \o ToString(setIndex)

\* obj[k] = v on a JavaScript object.
Put(obj, k, v) == [x \in (DOMAIN obj) \cup {k} |-> IF x = k THEN v ELSE obj[x]]

\* obj[k] read as a number in a truthiness or comparison context: a missing
\* property is undefined.
Has(obj, k) == k \in DOMAIN obj

(***************************************************************************)
(* The chronological replay.  The three nested forEach loops visit, record *)
(* by record, each exercise and then each of its sets in stored order;     *)
(* Steps lists those visits.  A record may lack its exercises field and an *)
(* exercise its sets field: the array is then undefined.                   *)
(***************************************************************************)
\* Fault injection for ExerciseName: names are folded to one case.
ExerciseNameIgnoringCase(ex) == IF ex.name = "squat" THEN "Squat" ELSE ex.name

\* const exerciseName = ex.name: the string that keys both maxima, is written
\* into the PR key and is stored as PRInfo.exercise.
ExerciseName(ex) == ex.name

\* Fault injection for OptionalForEach: obj[field].forEach(...) without the
\* "?.", which throws a TypeError when the array is undefined.
ForEachOrThrow(obj, field) ==
  [threw |-> field \notin DOMAIN obj,
   items |-> IF field \in DOMAIN obj THEN obj[field] ELSE <<>>]

\* obj[field]?.forEach(...): the elements the loop visits.  When the array is
\* undefined the call is skipped: nothing is visited and nothing is thrown.
OptionalForEach(obj, field) ==
  [threw |-> FALSE,
   items |-> IF field \in DOMAIN obj THEN obj[field] ELSE <<>>]

\* A TypeError thrown where a loop was to start: it leaves the function, so
\* no visit follows it.
TypeErrorVisit(date, exIndex) ==
  [kind |-> "TypeError", date |-> date, exIndex |-> exIndex,
   name |-> "", setIndex |-> 0, weight |-> 0, reps |-> 0]

ExerciseVisit(date, exIndex, ex) ==
  [kind |-> "exercise", date |-> date, exIndex |-> exIndex,
   name |-> ExerciseName(ex), setIndex |-> 0, weight |-> 0, reps |-> 0]

SetVisit(date, exIndex, ex, i) ==
  [kind |-> "set", date |-> date, exIndex |-> exIndex,
   name |-> ExerciseName(ex), setIndex |-> i - 1,
   weight |-> ex.sets[i].weight, reps |-> ex.sets[i].reps]

RECURSIVE SetVisits(_, _, _, _)
\* ex.sets?.forEach((set, setIndex) => ...) from the i-th set on; setIndex is
\* 0-based.
SetVisits(date, exIndex, ex, i) ==
  IF OptionalForEach(ex, "sets").threw THEN <<TypeErrorVisit(date, exIndex)>>
  ELSE IF i > Len(OptionalForEach(ex, "sets").items) THEN <<>>
  ELSE <<SetVisit(date, exIndex, ex, i)>> \o SetVisits(date, exIndex, ex, i + 1)

RECURSIVE ExerciseVisits(_, _)
\* record.exercises?.forEach((ex) => ...) from the j-th exercise on.
ExerciseVisits(record, j) ==
  IF OptionalForEach(record, "exercises").threw THEN <<TypeErrorVisit(record.date, j)>>
  ELSE IF j > Len(OptionalForEach(record, "exercises").items) THEN <<>>
  ELSE <<ExerciseVisit(record.date, j, record.exercises[j])>>
       \o SetVisits(record.date, j, record.exercises[j], 1)
       \o ExerciseVisits(record, j + 1)

RECURSIVE Steps(_)
\* sortedRecords.forEach((record) => ...)
Steps(rs) ==
  IF rs = <<>> THEN <<>> ELSE ExerciseVisits(Head(rs), 1) \o Steps(Tail(rs))

\* The three objects calculatePRs builds, all empty at its start.
EmptyResult ==
  [prData |-> <<>>, maxWeightByExercise |-> <<>>, maxRepsAtMaxWeight |-> <<>>]

\* if (!maxWeightByExercise[exerciseName]) { both maxima = 0 }: taken when the
\* name has no maximum yet and also when its stored maximum is 0.
EnterExercise(st, v) ==
  LET n == v.name IN
  IF ~Has(st.maxWeightByExercise, n) \/ st.maxWeightByExercise[n] = 0
  THEN [st EXCEPT !.maxWeightByExercise = Put(@, n, 0),
                  !.maxRepsAtMaxWeight = Put(@, n, 0)]
  ELSE st

\* Fault injection for IsNewMaxWeight: a set that only equals the running max
\* weight also counts as a new max weight.
IsNewMaxWeightOrEqual(st, v) == v.weight >= st.maxWeightByExercise[v.name]

\* set.weight > maxWeightByExercise[exerciseName]
IsNewMaxWeight(st, v) == v.weight > st.maxWeightByExercise[v.name]

\* set.weight === maxWeightByExercise[name] && set.reps > maxRepsAtMaxWeight[name]
IsNewRepAtMax(st, v) ==
  /\ v.weight = st.maxWeightByExercise[v.name]
  /\ v.reps > st.maxRepsAtMaxWeight[v.name]

\* The PRInfo literal of the max-weight branch; a flag the literal leaves out
\* is FALSE.
MaxWeightPRInfo(v) ==
  [maxWeightPR |-> TRUE, repPR |-> TRUE,
   isCurrentMaxPR |-> FALSE, isCurrentRepPR |-> FALSE,
   date |-> v.date, exercise |-> v.name,
   weight |-> v.weight, reps |-> v.reps, setIndex |-> v.setIndex]

\* The PRInfo literal of the rep branch: repPR only.
RepPRInfo(v) ==
  [maxWeightPR |-> FALSE, repPR |-> TRUE,
   isCurrentMaxPR |-> FALSE, isCurrentRepPR |-> FALSE,
   date |-> v.date, exercise |-> v.name,
   weight |-> v.weight, reps |-> v.reps, setIndex |-> v.setIndex]

\* Fault injection for NewMaxWeight: the reps maximum is merged with the
\* earlier one instead of being reset.
NewMaxWeightMergingReps(st, v) ==
  LET n == v.name IN
  [st EXCEPT !.maxWeightByExercise = Put(@, n, v.weight),
             !.maxRepsAtMaxWeight = Put(@, n, IF @[n] > v.reps THEN @[n] ELSE v.reps),
             !.prData = Put(@, getPRKey(v.date, v.name, v.setIndex),
                            MaxWeightPRInfo(v))]

\* The max-weight branch: both maxima are overwritten and the entry is stored.
NewMaxWeight(st, v) ==
  LET n == v.name IN
  [st EXCEPT !.maxWeightByExercise = Put(@, n, v.weight),
             !.maxRepsAtMaxWeight = Put(@, n, v.reps),
             !.prData = Put(@, getPRKey(v.date, v.name, v.setIndex),
                            MaxWeightPRInfo(v))]

\* Fault injection for NewRepAtMax: the rep branch also claims a max-weight PR.
NewRepAtMaxAsMaxWeight(st, v) ==
  LET n == v.name IN
  [st EXCEPT !.maxRepsAtMaxWeight = Put(@, n, v.reps),
             !.prData = Put(@, getPRKey(v.date, v.name, v.setIndex),
                            MaxWeightPRInfo(v))]

\* The rep branch: only the reps maximum is raised and the entry is stored.
NewRepAtMax(st, v) ==
  LET n == v.name IN
  [st EXCEPT !.maxRepsAtMaxWeight = Put(@, n, v.reps),
             !.prData = Put(@, getPRKey(v.date, v.name, v.setIndex),
                            RepPRInfo(v))]

\* The body of ex.sets?.forEach for one set.
ProcessSet(st, v) ==
  IF IsNewMaxWeight(st, v) THEN NewMaxWeight(st, v)
  ELSE IF IsNewRepAtMax(st, v) THEN NewRepAtMax(st, v)
  ELSE st

\* One visit of the replay.
Visit(st, v) == IF v.kind = "exercise" THEN EnterExercise(st, v) ELSE ProcessSet(st, v)

RECURSIVE Replay(_, _)
\* The loops up to their end, or up to the visit that throws.
Replay(st, vs) ==
  IF vs = <<>> \/ Head(vs).kind = "TypeError" THEN st
  ELSE Replay(Visit(st, Head(vs)), Tail(vs))

\* Fault injection for MarkEntry: the rep flag is set whenever the weight is
\* the final maximum, whatever the reps.
MarkEntryIgnoringReps(pr, maxW, maxR) ==
  IF pr.exercise = "" THEN pr
  ELSE [pr EXCEPT
          !.isCurrentMaxPR = @ \/ (pr.maxWeightPR /\ pr.weight = maxW[pr.exercise]),
          !.isCurrentRepPR = @ \/ (pr.repPR /\ pr.weight = maxW[pr.exercise])]

\* Fault injection for MarkEntry: the max flag does not ask for maxWeightPR.
MarkEntryAnyKind(pr, maxW, maxR) ==
  IF pr.exercise = "" THEN pr
  ELSE [pr EXCEPT
          !.isCurrentMaxPR = @ \/ (pr.weight = maxW[pr.exercise]),
          !.isCurrentRepPR = @ \/ (/\ pr.repPR
                                   /\ pr.weight = maxW[pr.exercise]
                                   /\ pr.reps = maxR[pr.exercise])]

\* The second pass on one entry, given the final maxima.
MarkEntry(pr, maxW, maxR) ==
  IF pr.exercise = "" THEN pr
  ELSE [pr EXCEPT
          !.isCurrentMaxPR = @ \/ (pr.maxWeightPR /\ pr.weight = maxW[pr.exercise]),
          !.isCurrentRepPR = @ \/ (/\ pr.repPR
                                   /\ pr.weight = maxW[pr.exercise]
                                   /\ pr.reps = maxR[pr.exercise])]

\* Object.keys(prData).forEach(...): the second pass.
MarkCurrent(st) ==
  [st EXCEPT !.prData =
     [k \in DOMAIN st.prData |->
        MarkEntry(st.prData[k], st.maxWeightByExercise, st.maxRepsAtMaxWeight)]]

\* calculatePRs as a function of its argument.
calculatePRs(rs) == MarkCurrent(Replay(EmptyResult, Steps(SortByDate(rs))))

(***************************************************************************)
(* Date-level lookups on a PR map.                                         *)
(***************************************************************************)
\* key.startsWith(prefix)
StartsWith(key, prefix) ==
  /\ Len(key) >= Len(prefix)
  /\ SubSeq(key, 1, Len(prefix)) = prefix

\* Fault injection for dateHasPR: the prefix is the date without the "_".
dateHasPRWithoutDelimiter(prData, dateStr) ==
  \E key \in DOMAIN prData : StartsWith(key, dateStr)

\* Object.keys(prData).some((key) => key.startsWith(dateStr + '_'))
dateHasPR(prData, dateStr) ==
  \E key \in DOMAIN prData : StartsWith(key, dateStr \o "_")

\* Fault injection for dateHasCurrentPR: only isCurrentMaxPR is looked at.
dateHasCurrentMaxPROnly(prData, dateStr) ==
  \E key \in DOMAIN prData :
    /\ StartsWith(key, dateStr \o "_")
    /\ prData[key].isCurrentMaxPR

\* Object.keys(prData).some(...): a key of the date whose entry is current.
dateHasCurrentPR(prData, dateStr) ==
  \E key \in DOMAIN prData :
    /\ StartsWith(key, dateStr \o "_")
    /\ prData[key].isCurrentMaxPR \/ prData[key].isCurrentRepPR

(***************************************************************************)
(* getPRSummaryForRecord: the two nested forEach loops visit the sets of   *)
(* the record in stored order and look each one up in the PR map.          *)
(***************************************************************************)
\* The sets the loops visit, in order (or the TypeError that ends them).
SummaryVisits(record) ==
  SelectSeq(ExerciseVisits(record, 1), LAMBDA v : v.kind # "exercise")

\* hasPR, hasNowPR and prSummary at the start of the function.
EmptySummary == [hasPR |-> FALSE, hasNowPR |-> FALSE, prSummary |-> <<>>]

\* The PRSummaryItem pushed for the set of visit v with entry pr.
PRSummaryItem(v, pr) ==
  [exercise |-> v.name, weight |-> v.weight, reps |-> v.reps,
   isMaxWeightPR |-> pr.maxWeightPR, isRepPR |-> pr.repPR,
   isCurrentMaxPR |-> pr.isCurrentMaxPR, isCurrentRepPR |-> pr.isCurrentRepPR]

\* Fault injection for PushSummaryItem: the item is put in front.
UnshiftSummaryItem(prSummary, v, pr) ==
  IF pr.maxWeightPR \/ pr.repPR THEN <<PRSummaryItem(v, pr)>> \o prSummary
  ELSE prSummary

\* if (pr.maxWeightPR || pr.repPR) prSummary.push({...})
PushSummaryItem(prSummary, v, pr) ==
  IF pr.maxWeightPR \/ pr.repPR THEN Append(prSummary, PRSummaryItem(v, pr))
  ELSE prSummary

\* Fault injection for IsNowPR: only isCurrentMaxPR makes a NOW PR.
IsNowMaxPROnly(pr) == pr.isCurrentMaxPR

\* pr.isCurrentMaxPR || pr.isCurrentRepPR
IsNowPR(pr) == pr.isCurrentMaxPR \/ pr.isCurrentRepPR

\* Fault injection for LookUpSet: the summary item is pushed for every set,
\* also for one without entry.
LookUpSetAlwaysPushing(acc, v, prData) ==
  LET prKey == getPRKey(v.date, v.name, v.setIndex)
      none  == [maxWeightPR |-> FALSE, repPR |-> TRUE,
                isCurrentMaxPR |-> FALSE, isCurrentRepPR |-> FALSE]
  IN  IF ~Has(prData, prKey)
      THEN [acc EXCEPT !.prSummary = PushSummaryItem(@, v, none)]
      ELSE [hasPR |-> TRUE,
            hasNowPR |-> acc.hasNowPR \/ IsNowPR(prData[prKey]),
            prSummary |-> PushSummaryItem(acc.prSummary, v, prData[prKey])]

\* The body of the inner loop for one set: const pr = prData[prKey]; if (pr) ...
LookUpSet(acc, v, prData) ==
  LET prKey == getPRKey(v.date, v.name, v.setIndex) IN
  IF ~Has(prData, prKey) THEN acc
  ELSE [hasPR |-> TRUE,
        hasNowPR |-> acc.hasNowPR \/ IsNowPR(prData[prKey]),
        prSummary |-> PushSummaryItem(acc.prSummary, v, prData[prKey])]

RECURSIVE Summarize(_, _, _)
Summarize(acc, vs, prData) ==
  IF vs = <<>> \/ Head(vs).kind = "TypeError" THEN acc
  ELSE Summarize(LookUpSet(acc, Head(vs), prData), Tail(vs), prData)

\* getPRSummaryForRecord as a function of its arguments.
getPRSummaryForRecord(record, prData) ==
  Summarize(EmptySummary, SummaryVisits(record), prData)

(***************************************************************************)
(* State.  Each group of variables is the state of one function or         *)
(* component; a specification that does not run a component leaves its     *)
(* variables at their idle values.                                         *)
(***************************************************************************)
\* One call of calculatePRs on a record list.
VARIABLES
  records,              \* the argument
  sortedRecords,        \* the sorted copy
  queue,                \* the visits of the replay still to come
  prData,               \* key -> PRInfo
  maxWeightByExercise,  \* name -> running max weight
  maxRepsAtMaxWeight,   \* name -> running max reps at the max weight
  pc                    \* "off", "start", "replay", "done"

\* One call of getPRSummaryForRecord, or one calendar cell's date lookups.
VARIABLES
  record,               \* the record argument
  prMap,                \* the prData argument
  visits,               \* the sets of the record still to look up
  hasPR,
  hasNowPR,
  prSummary,
  cell,                 \* the date of a calendar cell and its two lookups
  spc                   \* "idle", "start", "loop", "returned", "cell"

\* Two calls of getPRKey.
VARIABLES
  triples,              \* the two argument triples
  keys                  \* the two keys returned

\* The input step of RecordModal.
VARIABLES
  selectedExercise,
  sets,                 \* the rows of the form: weight and reps as typed
  validationErrors,
  onSave,               \* the requests onSave was called with
  handler               \* the handler that ran last

calcVars == <<records, sortedRecords, queue, prData, maxWeightByExercise,
              maxRepsAtMaxWeight, pc>>

projVars == <<record, prMap, visits, hasPR, hasNowPR, prSummary, cell, spc>>

keyVars == <<triples, keys>>

formVars == <<selectedExercise, sets, validationErrors, onSave, handler>>

\* The other components of the client, one group of variables each.
\* One call of findPreviousRecordForExercise.
VARIABLES
  history,        \* the records argument
  exerciseIdArg,  \* the exerciseId argument
  currentDate,
  sortedHistory,  \* the copy sorted by date, latest first
  position,       \* the record the for loop is at
  previousSets,   \* the value returned
  fpc             \* "off", "start", "loop", "returned"

\* The UI store: toasts and the level-up overlay.
VARIABLES
  toastCounter,  \* the module-level counter behind the toast ids
  toasts,        \* the toasts list
  timers,        \* the ids whose auto-dismiss timeout is pending
  created,       \* the ids given out so far, in order
  levelUpData

\* The Records page: its queries, mutations and memoised PR data.
VARIABLES
  server,             \* the record list the backend holds
  rawAllRecords,      \* the data of the 'workoutRecords' query
  invalidated,        \* the query keys invalidated and not fetched again yet
  pending,            \* the mutations whose request is in flight
  prCalculation,      \* the memo: its dependency and its value
  isRecordModalOpen,
  contextMenu         \* TRUE when the context menu is shown

\* The shared registry of window listeners.
VARIABLES
  windowHandlers,   \* event type -> set of handlers
  windowListeners,  \* event type -> the listener made for it
  nativeListeners,  \* the (type, listener) pairs registered on window
  listenersMade,    \* how many listener closures were created
  unsubscribes      \* the unsubscribe closures returned so far

\* The login recording effect of Layout.
VARIABLES
  clock,               \* the calendar day it is, as a position in Days
  lastLoginRecorded,   \* the localStorage item, "" when it is not set
  requests,            \* the recordLogin requests sent: the today of their effect and their outcome
  streaksInvalidated   \* how often ['streaks'] was invalidated

\* The useSwipe hook.
VARIABLES
  minSwipeDistance,   \* the three thresholds the hook was called with
  maxSwipeDistanceY,
  maxSwipeDistanceX,
  callbacks,          \* the callbacks the hook was called with
  touchStart,         \* touchStart.current: <<>> for null, else <<[x, y]>>
  touchEnd,           \* touchEnd.current, likewise
  touching,           \* a finger is on the screen
  onInteractive,      \* the gesture started on input, textarea, select or .no-swipe
  moved,              \* the gesture had a touchmove
  calls               \* the callbacks invoked since the last touchstart

\* The heatmap carousel of the Dashboard.
VARIABLES
  selectedYear,    \* Dashboard state
  currentHalf,
  currentQuarter,
  isMobile,
  isExtraSmall,
  isDraggingRef,   \* Heatmap refs
  isAnimatingRef,
  trackTransform,  \* the transform of the track, in panel widths
  periodTimers,    \* the pending 300 ms timers, oldest first, each with its period
  clearFrames      \* the pending animation frames that clear isAnimatingRef

copyVars == <<history, exerciseIdArg, currentDate, sortedHistory, position, previousSets, fpc>>

storeVars == <<toastCounter, toasts, timers, created, levelUpData>>

pageVars == <<server, rawAllRecords, invalidated, pending, prCalculation, isRecordModalOpen, contextMenu>>

listenerVars == <<windowHandlers, windowListeners, nativeListeners, listenersMade, unsubscribes>>

loginVars == <<clock, lastLoginRecorded, requests, streaksInvalidated>>

swipeVars == <<minSwipeDistance, maxSwipeDistanceY, maxSwipeDistanceX, callbacks, touchStart, touchEnd, touching, onInteractive, moved, calls>>

carouselVars == <<selectedYear, currentHalf, currentQuarter, isMobile, isExtraSmall, isDraggingRef, isAnimatingRef, trackTransform, periodTimers, clearFrames>>

clientVars == <<copyVars, storeVars, pageVars, listenerVars, loginVars, swipeVars, carouselVars>>

CopyIdle ==
  /\ history = <<>>
  /\ exerciseIdArg = 0
  /\ currentDate = ""
  /\ sortedHistory = <<>>
  /\ position = 0
  /\ previousSets = [null |-> TRUE, sets |-> <<>>]
  /\ fpc = "off"

StoreIdle ==
  /\ toastCounter = 0
  /\ toasts = <<>>
  /\ timers = {}
  /\ created = <<>>
  /\ levelUpData = [show |-> FALSE, newLevel |-> 0, expGained |-> 0]

PageIdle ==
  /\ server = <<>>
  /\ rawAllRecords = [loaded |-> FALSE, data |-> <<>>]
  /\ invalidated = {}
  /\ pending = {}
  /\ prCalculation = [deps |-> <<>>, value |-> EmptyResult]
  /\ isRecordModalOpen = FALSE
  /\ contextMenu = FALSE

ListenersIdle ==
  /\ windowHandlers = <<>>
  /\ windowListeners = <<>>
  /\ nativeListeners = {}
  /\ listenersMade = 0
  /\ unsubscribes = {}

LoginIdle ==
  /\ clock = 0
  /\ lastLoginRecorded = ""
  /\ requests = <<>>
  /\ streaksInvalidated = 0

SwipeIdle ==
  /\ minSwipeDistance = 0
  /\ maxSwipeDistanceY = 0
  /\ maxSwipeDistanceX = 0
  /\ callbacks = {}
  /\ touchStart = <<>>
  /\ touchEnd = <<>>
  /\ touching = FALSE
  /\ onInteractive = FALSE
  /\ moved = FALSE
  /\ calls = <<>>

CarouselIdle ==
  /\ selectedYear = 0
  /\ currentHalf = ""
  /\ currentQuarter = 0
  /\ isMobile = FALSE
  /\ isExtraSmall = FALSE
  /\ isDraggingRef = FALSE
  /\ isAnimatingRef = FALSE
  /\ trackTransform = ""
  /\ periodTimers = <<>>
  /\ clearFrames = 0

ClientIdle ==
  /\ CopyIdle
  /\ StoreIdle
  /\ PageIdle
  /\ ListenersIdle
  /\ LoginIdle
  /\ SwipeIdle
  /\ CarouselIdle

\* Everything outside copyVars.
copyFrame == <<calcVars, projVars, keyVars, formVars, storeVars, pageVars, listenerVars, loginVars, swipeVars, carouselVars>>

\* Everything outside storeVars.
storeFrame == <<calcVars, projVars, keyVars, formVars, copyVars, pageVars, listenerVars, loginVars, swipeVars, carouselVars>>

\* Everything outside pageVars and storeVars.
pageFrame == <<calcVars, projVars, keyVars, formVars, copyVars, listenerVars, loginVars, swipeVars, carouselVars>>

\* Everything outside listenerVars.
listenerFrame == <<calcVars, projVars, keyVars, formVars, copyVars, storeVars, pageVars, loginVars, swipeVars, carouselVars>>

\* Everything outside loginVars.
loginFrame == <<calcVars, projVars, keyVars, formVars, copyVars, storeVars, pageVars, listenerVars, swipeVars, carouselVars>>

\* Everything outside swipeVars.
swipeFrame == <<calcVars, projVars, keyVars, formVars, copyVars, storeVars, pageVars, listenerVars, loginVars, carouselVars>>

\* Everything outside carouselVars.
carouselFrame == <<calcVars, projVars, keyVars, formVars, copyVars, storeVars, pageVars, listenerVars, loginVars, swipeVars>>

vars == <<calcVars, projVars, keyVars, formVars, clientVars>>

CalculatorIdle ==
  /\ records = <<>>
  /\ sortedRecords = <<>>
  /\ queue = <<>>
  /\ prData = <<>>
  /\ maxWeightByExercise = <<>>
  /\ maxRepsAtMaxWeight = <<>>
  /\ pc = "off"

ProjectorIdle ==
  /\ record = [date |-> ""]
  /\ prMap = <<>>
  /\ visits = <<>>
  /\ hasPR = FALSE
  /\ hasNowPR = FALSE
  /\ prSummary = <<>>
  /\ cell = [dateStr |-> "", hasPR |-> FALSE, hasCurrentPR |-> FALSE]
  /\ spc = "idle"

KeysIdle ==
  /\ triples = <<>>
  /\ keys = <<>>

ModalIdle ==
  /\ selectedExercise = 0
  /\ sets = <<>>
  /\ validationErrors = <<>>
  /\ onSave = <<>>
  /\ handler = "idle"

\* The rest of the client at rest, for each component.
CopyRest ==
  /\ CalculatorIdle
  /\ ProjectorIdle
  /\ KeysIdle
  /\ ModalIdle
  /\ StoreIdle
  /\ PageIdle
  /\ ListenersIdle
  /\ LoginIdle
  /\ SwipeIdle
  /\ CarouselIdle

StoreRest ==
  /\ CalculatorIdle
  /\ ProjectorIdle
  /\ KeysIdle
  /\ ModalIdle
  /\ CopyIdle
  /\ PageIdle
  /\ ListenersIdle
  /\ LoginIdle
  /\ SwipeIdle
  /\ CarouselIdle

PageRest ==
  /\ CalculatorIdle
  /\ ProjectorIdle
  /\ KeysIdle
  /\ ModalIdle
  /\ CopyIdle
  /\ ListenersIdle
  /\ LoginIdle
  /\ SwipeIdle
  /\ CarouselIdle

ListenersRest ==
  /\ CalculatorIdle
  /\ ProjectorIdle
  /\ KeysIdle
  /\ ModalIdle
  /\ CopyIdle
  /\ StoreIdle
  /\ PageIdle
  /\ LoginIdle
  /\ SwipeIdle
  /\ CarouselIdle

LoginRest ==
  /\ CalculatorIdle
  /\ ProjectorIdle
  /\ KeysIdle
  /\ ModalIdle
  /\ CopyIdle
  /\ StoreIdle
  /\ PageIdle
  /\ ListenersIdle
  /\ SwipeIdle
  /\ CarouselIdle

SwipeRest ==
  /\ CalculatorIdle
  /\ ProjectorIdle
  /\ KeysIdle
  /\ ModalIdle
  /\ CopyIdle
  /\ StoreIdle
  /\ PageIdle
  /\ ListenersIdle
  /\ LoginIdle
  /\ CarouselIdle

CarouselRest ==
  /\ CalculatorIdle
  /\ ProjectorIdle
  /\ KeysIdle
  /\ ModalIdle
  /\ CopyIdle
  /\ StoreIdle
  /\ PageIdle
  /\ ListenersIdle
  /\ LoginIdle
  /\ SwipeIdle

\* The three result objects as one value.
Result ==
  [prData |-> prData, maxWeightByExercise |-> maxWeightByExercise,
   maxRepsAtMaxWeight |-> maxRepsAtMaxWeight]

SetResult(st) ==
  /\ prData' = st.prData
  /\ maxWeightByExercise' = st.maxWeightByExercise
  /\ maxRepsAtMaxWeight' = st.maxRepsAtMaxWeight

Init ==
  /\ \E sh \in Shapes(Cardinality(Dates), MaxTotalExercises, MaxTotalSets) :
       \E d \in DateSeqs(Len(sh)) :
         \E b \in ExerciseListsOfShape(sh) : records = TrainingRecords(d, b)
  /\ sortedRecords = <<>>
  /\ queue = <<>>
  /\ prData = <<>>
  /\ maxWeightByExercise = <<>>
  /\ maxRepsAtMaxWeight = <<>>
  /\ pc = "start"
  /\ ProjectorIdle
  /\ KeysIdle
  /\ ModalIdle
  /\ ClientIdle

\* const sortedRecords = [...records].sort(...)
SortRecords ==
  /\ pc = "start"
  /\ records' = SpreadAndSort(records).records
  /\ sortedRecords' = SpreadAndSort(records).sortedRecords
  /\ queue' = Steps(sortedRecords')
  /\ pc' = "replay"
  /\ UNCHANGED <<prData, maxWeightByExercise, maxRepsAtMaxWeight>>
  /\ UNCHANGED <<projVars, keyVars, formVars, clientVars>>

\* The head of one exercise's iteration.
EnterExerciseStep ==
  /\ pc = "replay"
  /\ queue # <<>>
  /\ Head(queue).kind = "exercise"
  /\ SetResult(EnterExercise(Result, Head(queue)))
  /\ queue' = Tail(queue)
  /\ UNCHANGED <<records, sortedRecords, pc>>
  /\ UNCHANGED <<projVars, keyVars, formVars, clientVars>>

\* One set of the replay.
ProcessSetStep ==
  /\ pc = "replay"
  /\ queue # <<>>
  /\ Head(queue).kind = "set"
  /\ SetResult(ProcessSet(Result, Head(queue)))
  /\ queue' = Tail(queue)
  /\ UNCHANGED <<records, sortedRecords, pc>>
  /\ UNCHANGED <<projVars, keyVars, formVars, clientVars>>

\* The second pass and the return.
MarkCurrentStep ==
  /\ pc = "replay"
  /\ queue = <<>>
  /\ SetResult(MarkCurrent(Result))
  /\ pc' = "done"
  /\ UNCHANGED <<records, sortedRecords, queue>>
  /\ UNCHANGED <<projVars, keyVars, formVars, clientVars>>

Next == SortRecords \/ EnterExerciseStep \/ ProcessSetStep \/ MarkCurrentStep

Spec == Init /\ [][Next]_vars

\* The step-wise run and the function agree.
ReturnsCalculatePRs == pc = "done" => Result = calculatePRs(records)

(***************************************************************************)
(* getPRSummaryForRecord step by step, and the calendar's date lookups.    *)
(***************************************************************************)
\* hasPR, hasNowPR and prSummary as one value.
Summary == [hasPR |-> hasPR, hasNowPR |-> hasNowPR, prSummary |-> prSummary]

SetSummary(acc) ==
  /\ hasPR' = acc.hasPR
  /\ hasNowPR' = acc.hasNowPR
  /\ prSummary' = acc.prSummary

\* A record card is rendered: getPRSummaryForRecord(record, prData) is called
\* for a record of the list calculatePRs was called with.
StartSummaryOfRecord ==
  /\ pc = "done"
  /\ spc = "idle"
  /\ \E i \in 1..Len(records) :
       /\ record' = records[i]
       /\ visits' = SummaryVisits(records[i])
  /\ prMap' = prData
  /\ SetSummary(EmptySummary)
  /\ spc' = "loop"
  /\ UNCHANGED <<cell, calcVars, keyVars, formVars, clientVars>>

\* One set of the record is looked up.
LookUpSetStep ==
  /\ spc \in {"start", "loop"}
  /\ visits # <<>>
  /\ Head(visits).kind = "set"
  /\ SetSummary(LookUpSet(Summary, Head(visits), prMap))
  /\ visits' = Tail(visits)
  /\ spc' = "loop"
  /\ UNCHANGED <<record, prMap, cell, calcVars, keyVars, formVars, clientVars>>

\* return { hasPR, hasNowPR, prSummary }
ReturnSummary ==
  /\ spc \in {"start", "loop"}
  /\ visits = <<>>
  /\ spc' = "returned"
  /\ UNCHANGED <<record, prMap, visits, hasPR, hasNowPR, prSummary, cell>>
  /\ UNCHANGED <<calcVars, keyVars, formVars, clientVars>>

(***************************************************************************)
(* Sparse input: calculatePRs on a list whose records may lack exercises   *)
(* and whose exercises may lack sets, then the summary of one record.      *)
(***************************************************************************)
MaxSparseExercises == 2

SparseNames == {"Squat"}

\* The sets arrays of a sparse exercise: empty or one set.
SparseSetArrays ==
  {<<>>} \cup { <<st>> : st \in {[weight |-> 0, reps |-> 1], [weight |-> 1, reps |-> 1]} }

\* An exercise without sets field, or with one of the arrays.
SparseExercises ==
  { [name |-> n] : n \in SparseNames } \cup
  { [name |-> n, sets |-> ss] : n \in SparseNames, ss \in SparseSetArrays }

RECURSIVE SparseExerciseArrays(_)
\* The exercises arrays of at most n sparse exercises.
SparseExerciseArrays(n) ==
  {<<>>} \cup
  IF n = 0 THEN {}
  ELSE { <<e>> \o rest : e \in SparseExercises, rest \in SparseExerciseArrays(n - 1) }

\* A record of the date without exercises field, or with one of the arrays.
SparseRecordsOn(date) ==
  {[date |-> date]} \cup
  { [date |-> date, exercises |-> es] : es \in SparseExerciseArrays(MaxSparseExercises) }

SparseInit ==
  /\ \E n \in 0..Cardinality(Dates) :
       \E d \in DateSeqs(n) :
         \E rs \in [1..n -> UNION { SparseRecordsOn(date) : date \in Dates }] :
           /\ \A i \in 1..n : rs[i].date = d[i]
           /\ records = rs
  /\ sortedRecords = <<>>
  /\ queue = <<>>
  /\ prData = <<>>
  /\ maxWeightByExercise = <<>>
  /\ maxRepsAtMaxWeight = <<>>
  /\ pc = "start"
  /\ ProjectorIdle
  /\ KeysIdle
  /\ ModalIdle
  /\ ClientIdle

SparseNext ==
  \/ SortRecords
  \/ EnterExerciseStep
  \/ ProcessSetStep
  \/ MarkCurrentStep
  \/ StartSummaryOfRecord
  \/ LookUpSetStep
  \/ ReturnSummary

SparseSpec == SparseInit /\ [][SparseNext]_vars

(***************************************************************************)
(* getPRSummaryForRecord and the date lookups on any record and PR map.    *)
(***************************************************************************)
MaxSummarySets == 2

\* The date of the record that is summarised.
SummaryDate == "2024-02-01"

\* The sets of that record: two sets of different weight and reps.
SummarySetValues == {[weight |-> 1, reps |-> 1], [weight |-> 2, reps |-> 0]}

RECURSIVE SummaryExerciseLists(_)
\* The exercises arrays whose exercises hold c[1], c[2], ... sets.
SummaryExerciseLists(c) ==
  IF c = <<>> THEN {<<>>}
  ELSE { <<[name |-> nm, sets |-> ss]>> \o rest :
         nm \in Names, ss \in [1..Head(c) -> SummarySetValues],
         rest \in SummaryExerciseLists(Tail(c)) }

\* The keys a PR map may hold: three of the summarised date, one of another.
MapKeys ==
  { getPRKey("2024-02-01", "Squat", 0), getPRKey("2024-02-01", "Squat", 1),
    getPRKey("2024-02-01", "squat", 0), getPRKey("2023-12-25", "Squat", 0) }

\* A PRInfo with the given optional flags (an absent flag is FALSE).
PRInfoWith(maxWeightPR, repPR, isCurrentMaxPR, isCurrentRepPR) ==
  [maxWeightPR |-> maxWeightPR, repPR |-> repPR,
   isCurrentMaxPR |-> isCurrentMaxPR, isCurrentRepPR |-> isCurrentRepPR,
   date |-> "2024-02-01", exercise |-> "Squat",
   weight |-> 1, reps |-> 1, setIndex |-> 0]

\* The entries of a PR map: without any flag, a beaten max-weight PR, a
\* current rep-only PR and a current max-weight PR with beaten reps.
PRInfos ==
  { PRInfoWith(FALSE, FALSE, FALSE, FALSE), PRInfoWith(TRUE, TRUE, FALSE, FALSE),
    PRInfoWith(FALSE, TRUE, FALSE, TRUE), PRInfoWith(TRUE, TRUE, TRUE, FALSE) }

\* The dateStr arguments: the two dates, a date without record, a month and
\* a date followed by a name.
DateStrs == Dates \cup {"2024-02-02", "2024-02", "2024-02-01_Squat"}

SummaryInit ==
  /\ \E c \in CountLists(Cardinality(Names), MaxSummarySets) :
       \E b \in SummaryExerciseLists(c) :
         record = [date |-> SummaryDate, exercises |-> b]
  /\ \E K \in SUBSET MapKeys : \E m \in [K -> PRInfos] : prMap = m
  /\ visits = SummaryVisits(record)
  /\ hasPR = FALSE
  /\ hasNowPR = FALSE
  /\ prSummary = <<>>
  /\ cell = [dateStr |-> "", hasPR |-> FALSE, hasCurrentPR |-> FALSE]
  /\ spc = "start"
  /\ CalculatorIdle
  /\ KeysIdle
  /\ ModalIdle
  /\ ClientIdle

\* One day of the calendar grid: both lookups for its date.
CalendarCell ==
  /\ spc = "start"
  /\ \E dateStr \in DateStrs :
       cell' = [dateStr |-> dateStr,
                hasPR |-> dateHasPR(prMap, dateStr),
                hasCurrentPR |-> dateHasCurrentPR(prMap, dateStr)]
  /\ spc' = "cell"
  /\ UNCHANGED <<record, prMap, visits, hasPR, hasNowPR, prSummary>>
  /\ UNCHANGED <<calcVars, keyVars, formVars, clientVars>>

SummaryNext == LookUpSetStep \/ ReturnSummary \/ CalendarCell

SummarySpec == SummaryInit /\ [][SummaryNext]_vars

\* The step-wise summary and the function agree.
ReturnsGetPRSummaryForRecord ==
  spc = "returned" => Summary = getPRSummaryForRecord(record, prMap)

(***************************************************************************)
(* getPRKey on two argument triples.                                       *)
(***************************************************************************)
MaxSetIndex == 11

\* Exercise names: empty, a digit, plain, and with the delimiter or digits
\* at either end.
KeyNames == {"", "1", "Squat", "Squat1", "Squat_", "Squat_1", "_1"}

\* (date, exerciseName, setIndex) with an ISO date and a set index from 0.
KeyTriples == [date : Dates, exerciseName : KeyNames, setIndex : 0..MaxSetIndex]

KeyInit ==
  /\ triples \in KeyTriples \X KeyTriples
  /\ keys = <<>>
  /\ CalculatorIdle
  /\ ProjectorIdle
  /\ ModalIdle
  /\ ClientIdle

\* getPRKey is called on both triples.
MakeKeys ==
  /\ keys = <<>>
  /\ keys' = [i \in 1..2 |->
               getPRKey(triples[i].date, triples[i].exerciseName, triples[i].setIndex)]
  /\ UNCHANGED <<triples, calcVars, projVars, formVars, clientVars>>

KeyNext == MakeKeys

KeySpec == KeyInit /\ [][KeyNext]_vars

(***************************************************************************)
(* RecordModal: the rows of the input step and handleSave.  A number is    *)
(* its exact decimal value num / den, or NaN.                              *)
(***************************************************************************)
NaN == [nan |-> TRUE, num |-> 0, den |-> 1]

Number(num, den) == [nan |-> FALSE, num |-> num, den |-> den]

RECURSIVE Pow10(_)
Pow10(k) == IF k <= 0 THEN 1 ELSE 10 * Pow10(k - 1)

Char(str, i) == SubSeq(str, i, i)

\* The value of a character as a digit, -1 when it is none.
DigitOf(c) ==
  CASE c \in {"0", "1", "2", "3", "4", "5", "6", "7", "8", "9"} -> DigitVal(c)
    [] c \in {"a", "A"} -> 10 [] c \in {"b", "B"} -> 11 [] c \in {"c", "C"} -> 12
    [] c \in {"d", "D"} -> 13 [] c \in {"e", "E"} -> 14 [] c \in {"f", "F"} -> 15
    [] OTHER -> -1

RECURSIVE SkipWhiteSpace(_, _)
\* The position of the first character from i on that is no space.
SkipWhiteSpace(str, i) ==
  IF i <= Len(str) /\ Char(str, i) = " " THEN SkipWhiteSpace(str, i + 1) ELSE i

RECURSIVE DigitRun(_, _, _)
\* The number of consecutive digits of the radix from position i on.
DigitRun(str, i, radix) ==
  IF i <= Len(str) /\ DigitOf(Char(str, i)) >= 0 /\ DigitOf(Char(str, i)) < radix
  THEN 1 + DigitRun(str, i + 1, radix)
  ELSE 0

RECURSIVE DigitsValue(_, _)
\* The number written by a string of digits of the radix.
DigitsValue(str, radix) ==
  IF Len(str) = 0 THEN 0
  ELSE radix * DigitsValue(SubSeq(str, 1, Len(str) - 1), radix)
       + DigitOf(Char(str, Len(str)))

\* The sign character at position i, "" when there is none.
SignAt(str, i) ==
  IF i <= Len(str) /\ Char(str, i) \in {"+", "-"} THEN Char(str, i) ELSE ""

Signed(sign, value) == IF sign = "-" THEN -value ELSE value

\* The integer written by the n digits from position p on; NaN without digit.
IntegerOfDigits(str, sign, p, n, radix) ==
  IF n = 0 THEN NaN
  ELSE Number(Signed(sign, DigitsValue(SubSeq(str, p, p + n - 1), radix)), 1)

\* The longest run of digits of the radix from position p on.
IntegerAt(str, sign, p, radix) ==
  IntegerOfDigits(str, sign, p, DigitRun(str, p, radix), radix)

\* After the sign: "0x" selects radix 16 when the radix is omitted or 16.
IntegerAfterSign(str, sign, p, radix) ==
  IF radix \in {0, 16} /\ p + 1 <= Len(str) /\ SubSeq(str, p, p + 1) \in {"0x", "0X"}
  THEN IntegerAt(str, sign, p + 2, 16)
  ELSE IntegerAt(str, sign, p, IF radix = 0 THEN 10 ELSE radix)

IntegerFrom(str, start, sign, radix) ==
  IntegerAfterSign(str, sign, start + Len(sign), radix)

\* parseInt(str, radix), radix 0 standing for an omitted radix: leading
\* spaces and a sign are skipped and the longest run of digits is read, so
\* the text ends at a "." or an "e".
parseInt(str, radix) ==
  IntegerFrom(str, SkipWhiteSpace(str, 1), SignAt(str, SkipWhiteSpace(str, 1)), radix)

\* The exponent written by the n digits from position p on, 0 without digit
\* (the "e" is then not part of the literal).
ExponentOfDigits(str, eSign, p, n) ==
  IF n = 0 THEN 0 ELSE Signed(eSign, DigitsValue(SubSeq(str, p, p + n - 1), 10))

ExponentAfterSign(str, eSign, p) ==
  ExponentOfDigits(str, eSign, p, DigitRun(str, p, 10))

\* The exponent part at position p: "e" or "E", a sign, digits.
ExponentAt(str, p) ==
  IF p <= Len(str) /\ Char(str, p) \in {"e", "E"}
  THEN ExponentAfterSign(str, SignAt(str, p + 1), p + 1 + Len(SignAt(str, p + 1)))
  ELSE 0

\* mant * 10^e10 as num / den.
Decimal(mant, e10) == Number(mant * Pow10(e10), Pow10(-e10))

\* The literal with nInt digits from p, then dot characters ("." or none),
\* then nFrac digits, then the exponent part; NaN without digit.
FloatOfParts(str, sign, p, nInt, dot, nFrac) ==
  IF nInt + nFrac = 0 THEN NaN
  ELSE Decimal(Signed(sign, DigitsValue(SubSeq(str, p, p + nInt - 1)
                                        \o SubSeq(str, p + nInt + dot,
                                                  p + nInt + dot + nFrac - 1), 10)),
               ExponentAt(str, p + nInt + dot + nFrac) - nFrac)

\* After the integer digits: a "." and the digits of the fraction.
FloatAfterInteger(str, sign, p, nInt) ==
  IF p + nInt <= Len(str) /\ Char(str, p + nInt) = "."
  THEN FloatOfParts(str, sign, p, nInt, 1, DigitRun(str, p + nInt + 1, 10))
  ELSE FloatOfParts(str, sign, p, nInt, 0, 0)

FloatFrom(str, start, sign) ==
  FloatAfterInteger(str, sign, start + Len(sign), DigitRun(str, start + Len(sign), 10))

\* parseFloat(str): leading spaces and a sign are skipped and the longest
\* decimal literal is read: digits, an optional fraction and an optional
\* exponent; NaN without digit.
parseFloat(str) ==
  FloatFrom(str, SkipWhiteSpace(str, 1), SignAt(str, SkipWhiteSpace(str, 1)))

\* Number.isNaN(value) || value < 0 || value > max
OutOfRange(value, max) ==
  value.nan \/ value.num < 0 \/ value.num > max * value.den

\* if (s.weight) { weightValue = parseFloat(s.weight); NaN, < 0 or > 500 }
WeightError(st) == st.weight # "" /\ OutOfRange(parseFloat(st.weight), 500)

\* if (s.reps) { repsValue = parseInt(s.reps, 10); NaN, < 0 or > 20 }
RepsError(st) == st.reps # "" /\ OutOfRange(parseInt(st.reps, 10), 20)

\* setErrors of one row: the fields that got a message.
SetErrors(st) ==
  (IF WeightError(st) THEN {"weight"} ELSE {}) \cup
  (IF RepsError(st) THEN {"reps"} ELSE {})

\* errors: index (from 0) -> setErrors, for the rows with a message.
CollectErrors(rows) ==
  LET setErrors == [index \in 0..(Len(rows) - 1) |-> SetErrors(rows[index + 1])]
  IN  [index \in { i \in DOMAIN setErrors : setErrors[i] # {} } |-> setErrors[index]]

\* sets.filter((s) => s.weight && s.reps)
ValidSets(rows) == SelectSeq(rows, LAMBDA st : st.weight # "" /\ st.reps # "")

\* The date prop of the modal.
ModalDate == "2024-02-01"

\* validSets.map((s) => ({ weight: parseFloat(s.weight), reps: parseInt(s.reps) }))
SaveSets(validSets) ==
  [i \in 1..Len(validSets) |->
     [weight |-> parseFloat(validSets[i].weight),
      reps |-> parseInt(validSets[i].reps, 0)]]

\* The SaveWorkoutRequest handed to onSave.
SaveRequest(exerciseId, rows) ==
  [date |-> ModalDate,
   exercises |-> <<[exerciseId |-> exerciseId, sets |-> SaveSets(ValidSets(rows))]>>]

MaxRows == 2

\* What the weight field of a row may hold: nothing, the two ends of the
\* range, a decimal above it, a negative number and a text that is no number.
WeightInputs == {"", "0", "500", "500.5", "-1", "abc"}

\* What the reps field may hold: nothing, the upper end of the range, the
\* number above it, and a hundred in exponent notation.
RepsInputs == {"", "20", "21", "1e2"}

ExerciseIds == {1}

ModalInit ==
  /\ selectedExercise = {}
  /\ sets = <<[weight |-> "", reps |-> ""]>>
  /\ validationErrors = <<>>
  /\ onSave = <<>>
  /\ handler = "mount"
  /\ CalculatorIdle
  /\ ProjectorIdle
  /\ KeysIdle
  /\ ClientIdle

\* handleSelectExercise: the input step opens for the exercise.
HandleSelectExercise ==
  /\ selectedExercise = {}
  /\ \E ex \in ExerciseIds : selectedExercise' = {ex}
  /\ handler' = "handleSelectExercise"
  /\ UNCHANGED <<sets, validationErrors, onSave, calcVars, projVars, keyVars, clientVars>>

\* The buttons and fields of the input step work while no request is pending.
InputStep == selectedExercise # {} /\ onSave = <<>>

\* addSet
AddSet ==
  /\ InputStep
  /\ Len(sets) < MaxRows
  /\ sets' = Append(sets, [weight |-> "", reps |-> ""])
  /\ handler' = "addSet"
  /\ UNCHANGED <<selectedExercise, validationErrors, onSave>>
  /\ UNCHANGED <<calcVars, projVars, keyVars, clientVars>>

\* removeSet(index): the button is shown while there is more than one row.
RemoveSet ==
  /\ InputStep
  /\ Len(sets) > 1
  /\ \E index \in 0..(Len(sets) - 1) :
       sets' = [i \in 1..(Len(sets) - 1) |->
                  IF i <= index THEN sets[i] ELSE sets[i + 1]]
  /\ handler' = "removeSet"
  /\ UNCHANGED <<selectedExercise, validationErrors, onSave>>
  /\ UNCHANGED <<calcVars, projVars, keyVars, clientVars>>

\* The onChange branch that drops the field's message of the row, and the
\* row's entry when no message is left.
ClearError(errors, index, field) ==
  IF index \in DOMAIN errors /\ field \in errors[index]
  THEN IF errors[index] = {field}
       THEN [i \in (DOMAIN errors) \ {index} |-> errors[i]]
       ELSE [errors EXCEPT ![index] = @ \ {field}]
  ELSE errors

\* onChange of a weight or reps field: updateSet(index, field, value), then
\* the field's message is dropped.
UpdateSet ==
  /\ InputStep
  /\ \E index \in 0..(Len(sets) - 1) :
       \/ \E value \in WeightInputs :
            /\ sets' = [sets EXCEPT ![index + 1].weight = value]
            /\ validationErrors' = ClearError(validationErrors, index, "weight")
       \/ \E value \in RepsInputs :
            /\ sets' = [sets EXCEPT ![index + 1].reps = value]
            /\ validationErrors' = ClearError(validationErrors, index, "reps")
  /\ handler' = "updateSet"
  /\ UNCHANGED <<selectedExercise, onSave, calcVars, projVars, keyVars, clientVars>>

\* handleSave: the save button of the input step, which is shown only with
\* an exercise selected.
HandleSave ==
  /\ InputStep
  /\ handler' = "handleSave"
  /\ IF selectedExercise = {} THEN UNCHANGED <<validationErrors, onSave>>
     ELSE /\ validationErrors' = CollectErrors(sets)
          /\ IF DOMAIN CollectErrors(sets) # {} THEN UNCHANGED onSave
             ELSE IF Len(ValidSets(sets)) = 0 THEN UNCHANGED onSave
             ELSE \E ex \in selectedExercise :
                    onSave' = Append(onSave, SaveRequest(ex, sets))
  /\ UNCHANGED <<selectedExercise, sets, calcVars, projVars, keyVars, clientVars>>

ModalNext == HandleSelectExercise \/ AddSet \/ RemoveSet \/ UpdateSet \/ HandleSave

ModalSpec == ModalInit /\ [][ModalNext]_vars

(***************************************************************************)
(* findPreviousRecordForExercise: the sets of an exercise in the latest    *)
(* record of another date, which the modal's copy-previous button fills   *)
(* in.  An exercise carries its id here, and a set its own id, which the   *)
(* returned list leaves out.                                               *)
(***************************************************************************)
\* (a, b) => new Date(b.date).getTime() - new Date(a.date).getTime()
CompareByDateDescending(a, b) == GetTime(b.date) - GetTime(a.date)

RECURSIVE InsertDescending(_, _)
\* r inserted after every element that does not compare greater than it.
InsertDescending(s, r) ==
  IF s = <<>> THEN <<r>>
  ELSE IF CompareByDateDescending(Head(s), r) > 0 THEN <<r>> \o s
  ELSE <<Head(s)>> \o InsertDescending(Tail(s), r)

RECURSIVE SortDescendingCopy(_)
SortDescendingCopy(rs) ==
  IF rs = <<>> THEN <<>>
  ELSE InsertDescending(SortDescendingCopy(SubSeq(rs, 1, Len(rs) - 1)), rs[Len(rs)])

\* Fault injection for SortLatestFirst: the copy is sorted oldest first.
SortOldestFirst(rs) == SortAscending(rs)

\* [...records].sort(latest first)
SortLatestFirst(rs) == SortDescendingCopy(rs)

\* record.exercises?.find((ex) => ex.id === exerciseId): the first exercise
\* with the id as a one-element list, the empty list for undefined.
FindExercise(rec, id) ==
  LET hits == SelectSeq(OptionalForEach(rec, "exercises").items,
                        LAMBDA ex : ex.id = id)
  IN  IF Len(hits) = 0 THEN <<>> ELSE <<Head(hits)>>

\* exercise && exercise.sets && exercise.sets.length > 0
HasSets(found) ==
  /\ Len(found) > 0
  /\ "sets" \in DOMAIN found[1]
  /\ Len(found[1].sets) > 0

\* exercise.sets.map((set) => ({ weight: set.weight, reps: set.reps }))
MapSets(setList) ==
  [i \in 1..Len(setList) |-> [weight |-> setList[i].weight, reps |-> setList[i].reps]]

Null == [null |-> TRUE, sets |-> <<>>]

\* The body of the for loop for one record: continue, or return the sets.
Skips(rec, id, date) == rec.date = date \/ ~HasSets(FindExercise(rec, id))

RECURSIVE ScanRecords(_, _, _)
ScanRecords(rs, id, date) ==
  IF rs = <<>> THEN Null
  ELSE IF Skips(Head(rs), id, date) THEN ScanRecords(Tail(rs), id, date)
  ELSE [null |-> FALSE, sets |-> MapSets(FindExercise(Head(rs), id)[1].sets)]

\* findPreviousRecordForExercise as a function of its arguments.
findPreviousRecordForExercise(rs, id, date) ==
  ScanRecords(SortLatestFirst(rs), id, date)

MaxHistory == 2

\* Dates of the history: the two of the calculator and a later one.
CopyDates == Dates \cup {"2024-02-10"}

\* The sets arrays of an exercise: none, two sets, one set.
CopySetArrays ==
  { <<>>,
    <<[id |-> 1, weight |-> 2, reps |-> 0], [id |-> 2, weight |-> 1, reps |-> 1]>>,
    <<[id |-> 3, weight |-> 1, reps |-> 1]>> }

\* The exercise looked for (id 1) with each sets array or without the field,
\* and another exercise (id 2).
CopyExercises ==
  [id : {1}, sets : CopySetArrays] \cup {[id |-> 1]}
    \cup {[id |-> 2, sets |-> <<[id |-> 4, weight |-> 2, reps |-> 1]>>]}

\* A record of a date: without exercises field, or with up to two exercises.
CopyRecordsOn(date) ==
  {[date |-> date]}
    \cup { [date |-> date, exercises |-> exs] :
             exs \in {<<>>} \cup { <<e>> : e \in CopyExercises }
                      \cup { <<e1, e2>> : e1 \in CopyExercises, e2 \in CopyExercises } }

CopyInit ==
  /\ \E n \in 0..MaxHistory :
       \E d \in { f \in [1..n -> CopyDates] : \A i, j \in 1..n : f[i] = f[j] => i = j } :
         history \in { h \in [1..n -> UNION { CopyRecordsOn(x) : x \in CopyDates }] :
                         \A i \in 1..n : h[i].date = d[i] }
  /\ exerciseIdArg = 1
  /\ currentDate \in CopyDates
  /\ sortedHistory = <<>>
  /\ position = 0
  /\ previousSets = Null
  /\ fpc = "start"
  /\ CopyRest

\* const sortedRecords = [...records].sort(...)
SortHistory ==
  /\ fpc = "start"
  /\ sortedHistory' = SortLatestFirst(history)
  /\ position' = 1
  /\ fpc' = "loop"
  /\ UNCHANGED <<history, exerciseIdArg, currentDate, previousSets, copyFrame>>

\* if (record.date === currentDate) continue; and the fall through of the if
\* that tests the exercise found.
ContinueLoop ==
  /\ fpc = "loop"
  /\ position <= Len(sortedHistory)
  /\ Skips(sortedHistory[position], exerciseIdArg, currentDate)
  /\ position' = position + 1
  /\ UNCHANGED <<history, exerciseIdArg, currentDate, sortedHistory, previousSets,
                 fpc, copyFrame>>

\* return exercise.sets.map(...)
ReturnSets ==
  /\ fpc = "loop"
  /\ position <= Len(sortedHistory)
  /\ ~Skips(sortedHistory[position], exerciseIdArg, currentDate)
  /\ previousSets' =
       [null |-> FALSE,
        sets |-> MapSets(FindExercise(sortedHistory[position], exerciseIdArg)[1].sets)]
  /\ fpc' = "returned"
  /\ UNCHANGED <<history, exerciseIdArg, currentDate, sortedHistory, position, copyFrame>>

\* return null
ReturnNull ==
  /\ fpc = "loop"
  /\ position > Len(sortedHistory)
  /\ previousSets' = Null
  /\ fpc' = "returned"
  /\ UNCHANGED <<history, exerciseIdArg, currentDate, sortedHistory, position, copyFrame>>

CopyNext == SortHistory \/ ContinueLoop \/ ReturnSets \/ ReturnNull

CopySpec == CopyInit /\ [][CopyNext]_vars

\* The loop returns what the function computes.
ReturnsFindPreviousRecord ==
  fpc = "returned" =>
    previousSets = findPreviousRecordForExercise(history, exerciseIdArg, currentDate)

(***************************************************************************)
(* The UI store (stores/uiStore.ts): showToast, its auto-dismiss timeout   *)
(* and removeToast.  A timeout that was set fires once, 2.5 s later; how   *)
(* long that is against the other steps is left open.                      *)
(***************************************************************************)
MaxToasts == 3

ToastMessages == {"saved", "check the input"}

ToastTypes == {"success", "error", "info"}

\* Fault injection for NextToastId: the counter is read without "++".
SameToastId(counter) == [counter |-> counter, id |-> "toast-" \o ToString(counter)]

\* const id = `toast-${++toastCounter}`: the counter after the increment and
\* the id made of it.
NextToastId(counter) ==
  [counter |-> counter + 1, id |-> "toast-" \o ToString(counter + 1)]

\* The ids a session may see.
ToastIds == { NextToastId(n).id : n \in 0..(MaxToasts - 1) }

\* state.toasts.filter((t) => t.id !== id)
WithoutToast(list, id) == SelectSeq(list, LAMBDA t : t.id # id)

\* showToast(message, type): the id is taken, the toast appended and the
\* timeout set.
ShowToastCall(message, type) ==
  /\ toastCounter' = NextToastId(toastCounter).counter
  /\ toasts' = Append(toasts, [id |-> NextToastId(toastCounter).id,
                               message |-> message, type |-> type])
  /\ timers' = timers \cup {NextToastId(toastCounter).id}
  /\ created' = Append(created, NextToastId(toastCounter).id)

StoreInit ==
  /\ toastCounter = 0
  /\ toasts = <<>>
  /\ timers = {}
  /\ created = <<>>
  /\ levelUpData = [show |-> FALSE, newLevel |-> 0, expGained |-> 0]
  /\ StoreRest

\* showToast(message, type = 'info')
ShowToast ==
  /\ toastCounter < MaxToasts
  /\ \E message \in ToastMessages, type \in ToastTypes : ShowToastCall(message, type)
  /\ UNCHANGED <<levelUpData, storeFrame>>

\* removeToast(id), for any id: of a toast shown, removed or never created.
RemoveToast(id) ==
  /\ toasts' = WithoutToast(toasts, id)
  /\ UNCHANGED <<toastCounter, timers, created, levelUpData, storeFrame>>

\* The timeout of showToast fires: the same filter, 2.5 s after the call.
TimerFires(id) ==
  /\ id \in timers
  /\ timers' = timers \ {id}
  /\ toasts' = WithoutToast(toasts, id)
  /\ UNCHANGED <<toastCounter, created, levelUpData, storeFrame>>

StoreNext ==
  \/ ShowToast
  \/ \E id \in ToastIds : RemoveToast(id)
  \/ \E id \in ToastIds : TimerFires(id)

\* The event loop runs every timeout that is due.
StoreSpec ==
  StoreInit /\ [][StoreNext]_vars /\ \A id \in ToastIds : WF_vars(TimerFires(id))

(***************************************************************************)
(* The Records page (pages/Records.tsx): the 'workoutRecords' query, the   *)
(* three mutations on records and the memoised calculatePRs.  The backend  *)
(* is outside the client: what a request does to its record list and what *)
(* it answers is any of the values below.  A query that was invalidated is *)
(* fetched again while the page shows it; the page shows 'workoutRecords'  *)
(* and 'workoutRecordsPaged'.                                              *)
(***************************************************************************)
\* The record lists the backend may hold.
PageLists ==
  { <<>>,
    <<[date |-> "2024-02-01",
       exercises |-> <<[name |-> "Squat", sets |-> <<[weight |-> 1, reps |-> 1]>>]>>]>>,
    <<[date |-> "2024-02-01",
       exercises |-> <<[name |-> "Squat", sets |-> <<[weight |-> 1, reps |-> 1]>>]>>],
      [date |-> "2023-12-25",
       exercises |-> <<[name |-> "Squat", sets |-> <<[weight |-> 2, reps |-> 1]>>]>>]>> }

Mutations == {"save", "delete", "deleteSet"}

\* The keys of the queries the page shows.
PageQueries == {"workoutRecords", "workoutRecordsPaged"}

\* Fault injection for InvalidatedOnSuccess: deleting a set invalidates the
\* full list only.
InvalidatedWithoutPagedOnDeleteSet(mutation) ==
  IF mutation = "deleteSet" THEN {"workoutRecords"}
  ELSE {"workoutRecords", "workoutRecordsPaged", "userStats", "heatmap", "streaks",
        "petStatus", "barn"}

\* The invalidateQueries calls of a mutation's onSuccess.
InvalidatedOnSuccess(mutation) ==
  IF mutation = "deleteSet" THEN {"workoutRecords", "workoutRecordsPaged"}
  ELSE {"workoutRecords", "workoutRecordsPaged", "userStats", "heatmap", "streaks",
        "petStatus", "barn"}

\* const allRecords = Array.isArray(rawAllRecords) ? rawAllRecords : []
AllRecords(raw) == IF raw.loaded THEN raw.data ELSE <<>>

\* Fault injection for UseMemo: the value of the first render is kept.
KeepFirstMemo(memo, allRecords) == memo

\* useMemo(() => calculatePRs(allRecords), [allRecords]): computed again when
\* the dependency changed.
UseMemo(memo, allRecords) ==
  IF allRecords = memo.deps THEN memo
  ELSE [deps |-> allRecords, value |-> calculatePRs(allRecords)]

PageInit ==
  /\ server \in PageLists
  /\ rawAllRecords = [loaded |-> FALSE, data |-> <<>>]
  /\ invalidated = PageQueries
  /\ pending = {}
  /\ prCalculation = [deps |-> <<>>, value |-> calculatePRs(<<>>)]
  /\ isRecordModalOpen = FALSE
  /\ contextMenu = FALSE
  /\ StoreIdle
  /\ PageRest

\* A day or a card is clicked: setIsRecordModalOpen(true).
OpenRecordModal ==
  /\ ~isRecordModalOpen
  /\ isRecordModalOpen' = TRUE
  /\ UNCHANGED <<server, rawAllRecords, invalidated, pending, prCalculation,
                 contextMenu, storeVars, pageFrame>>

\* handleContextMenu
OpenContextMenu ==
  /\ ~contextMenu
  /\ contextMenu' = TRUE
  /\ UNCHANGED <<server, rawAllRecords, invalidated, pending, prCalculation,
                 isRecordModalOpen, storeVars, pageFrame>>

\* saveMutation.mutate(data) from the modal, deleteMutation.mutate(id) and
\* deleteSetMutation.mutate(id) from the confirm dialog: the request leaves.
Mutate(mutation) ==
  /\ mutation \notin pending
  /\ mutation = "save" => isRecordModalOpen
  /\ pending' = pending \cup {mutation}
  /\ UNCHANGED <<server, rawAllRecords, invalidated, prCalculation,
                 isRecordModalOpen, contextMenu, storeVars, pageFrame>>

\* showToast(message || '入力内容を確認してください', 'error') with no message
\* in the answer.
SaveErrorMessage == "check the input"

\* if (data.newLevel) showLevelUp(newLevel, data.expGained || 0)
LevelUpAfter(response) ==
  IF response.newLevel # 0
  THEN [show |-> TRUE, newLevel |-> response.newLevel, expGained |-> response.expGained]
  ELSE levelUpData

\* The request succeeded: the backend changed its list, and onSuccess runs.
MutationSucceeds(mutation) ==
  /\ mutation \in pending
  /\ pending' = pending \ {mutation}
  /\ server' \in PageLists
  /\ invalidated' = invalidated \cup InvalidatedOnSuccess(mutation)
  /\ isRecordModalOpen' = IF mutation = "deleteSet" THEN isRecordModalOpen ELSE FALSE
  /\ contextMenu' = IF mutation = "save" THEN contextMenu ELSE FALSE
  /\ IF mutation = "save"
     THEN \E response \in {[newLevel |-> 0, expGained |-> 0],
                           [newLevel |-> 2, expGained |-> 10]} :
            levelUpData' = LevelUpAfter(response)
     ELSE UNCHANGED levelUpData
  /\ UNCHANGED <<rawAllRecords, prCalculation, toastCounter, toasts, timers, created,
                 pageFrame>>

\* The request failed: only saveMutation has an onError, which shows a toast
\* for status 400.
MutationFails(mutation) ==
  /\ mutation \in pending
  /\ pending' = pending \ {mutation}
  /\ \E status \in {400, 500} :
       IF mutation = "save" /\ status = 400
       THEN /\ toastCounter < MaxToasts
            /\ ShowToastCall(SaveErrorMessage, "error")
       ELSE UNCHANGED <<toastCounter, toasts, timers, created>>
  /\ UNCHANGED <<server, rawAllRecords, invalidated, prCalculation, isRecordModalOpen,
                 contextMenu, levelUpData, pageFrame>>

\* An invalidated query of the page is fetched again; the answer to
\* 'workoutRecords' becomes rawAllRecords and the page renders with it.
Refetch(queryKey) ==
  /\ queryKey \in invalidated
  /\ invalidated' = invalidated \ {queryKey}
  /\ IF queryKey = "workoutRecords"
     THEN /\ rawAllRecords' = [loaded |-> TRUE, data |-> server]
          /\ prCalculation' = UseMemo(prCalculation, AllRecords(rawAllRecords'))
     ELSE UNCHANGED <<rawAllRecords, prCalculation>>
  /\ UNCHANGED <<server, pending, isRecordModalOpen, contextMenu, storeVars, pageFrame>>

PageNext ==
  \/ OpenRecordModal
  \/ OpenContextMenu
  \/ \E mutation \in Mutations : Mutate(mutation)
  \/ \E mutation \in Mutations : MutationSucceeds(mutation)
  \/ \E mutation \in Mutations : MutationFails(mutation)
  \/ \E queryKey \in PageQueries : Refetch(queryKey)
  \/ \E id \in ToastIds : TimerFires(id)

PageSpec == PageInit /\ [][PageNext]_vars

(***************************************************************************)
(* The shared window-listener registry (hooks/useInfiniteScroll.ts).       *)
(* useWindowEventListener is the only caller of addWindowListener and      *)
(* passes a handler made inside its effect, so every call brings a new     *)
(* handler; a handler and a listener are known by a number.  An            *)
(* unsubscribe closure keeps its type and handler and can be called at any *)
(* time, any number of times.                                              *)
(***************************************************************************)
MaxHandlers == 3

EventTypes == {"click", "keydown"}

\* map.delete(key)
MapDelete(map, key) == [k \in (DOMAIN map) \ {key} |-> map[k]]

\* The registry as one value.
Registry ==
  [handlers |-> windowHandlers, listeners |-> windowListeners,
   native |-> nativeListeners, made |-> listenersMade]

\* if (!handlers) { a new Set, a new listener, both stored, and
\* window.addEventListener(type, listener) }
WithHandlerSet(reg, type) ==
  IF type \in DOMAIN reg.handlers THEN reg
  ELSE [handlers |-> Put(reg.handlers, type, {}),
        listeners |-> Put(reg.listeners, type, reg.made + 1),
        native |-> reg.native \cup {<<type, reg.made + 1>>},
        made |-> reg.made + 1]

\* addWindowListener(type, handler) up to its return.
AddHandler(reg, type, stableHandler) ==
  [WithHandlerSet(reg, type) EXCEPT !.handlers[type] = @ \cup {stableHandler}]

\* Fault injection for RemoveWhenEmpty: the maps are cleared but the native
\* listener stays on window.
RemoveMapsOnly(reg, type) ==
  IF reg.handlers[type] # {} THEN reg
  ELSE [reg EXCEPT !.listeners = MapDelete(@, type),
                   !.handlers = MapDelete(@, type)]

\* if (activeHandlers.size === 0) { removeEventListener of the stored
\* listener, and both map entries deleted }
RemoveWhenEmpty(reg, type) ==
  IF reg.handlers[type] # {} THEN reg
  ELSE [reg EXCEPT
          !.native = IF type \in DOMAIN reg.listeners
                     THEN @ \ {<<type, reg.listeners[type]>>} ELSE @,
          !.listeners = MapDelete(@, type),
          !.handlers = MapDelete(@, type)]

\* The closure addWindowListener returns, called.
RemoveHandler(reg, type, stableHandler) ==
  IF type \notin DOMAIN reg.handlers THEN reg
  ELSE RemoveWhenEmpty([reg EXCEPT !.handlers[type] = @ \ {stableHandler}], type)

SetRegistry(reg) ==
  /\ windowHandlers' = reg.handlers
  /\ windowListeners' = reg.listeners
  /\ nativeListeners' = reg.native
  /\ listenersMade' = reg.made

ListenersInit ==
  /\ windowHandlers = <<>>
  /\ windowListeners = <<>>
  /\ nativeListeners = {}
  /\ listenersMade = 0
  /\ unsubscribes = {}
  /\ ListenersRest

\* An effect of useWindowEventListener runs: addWindowListener(type, stableHandler).
AddWindowListener(type) ==
  /\ Cardinality(unsubscribes) < MaxHandlers
  /\ LET stableHandler == Cardinality(unsubscribes) + 1 IN
       /\ SetRegistry(AddHandler(Registry, type, stableHandler))
       /\ unsubscribes' = unsubscribes \cup {[type |-> type, handler |-> stableHandler]}
  /\ UNCHANGED listenerFrame

\* An unsubscribe closure is called: by the effect's cleanup, or again later.
Unsubscribe(u) ==
  /\ SetRegistry(RemoveHandler(Registry, u.type, u.handler))
  /\ UNCHANGED <<unsubscribes, listenerFrame>>

ListenersNext ==
  \/ \E type \in EventTypes : AddWindowListener(type)
  \/ \E u \in unsubscribes : Unsubscribe(u)

ListenersSpec == ListenersInit /\ [][ListenersNext]_vars

(***************************************************************************)
(* The login recording effect of Layout.  The effect runs when a Layout    *)
(* mounts; it runs up to its await in one piece, and what follows the      *)
(* await runs when the request has returned.  Several Layouts of one       *)
(* browser (tabs, or a remount) share localStorage.                        *)
(***************************************************************************)
MaxMounts == 3

\* The calendar days of the session, as new Date().toISOString().split('T')[0].
Days == <<"2024-02-01", "2024-02-02">>

\* Fault injection for NeedsRecording: the effect does not look at the item.
AlwaysNeedsRecording(lastLogin, today) == TRUE

\* if (lastLogin !== today)
NeedsRecording(lastLogin, today) == lastLogin # today

LoginInit ==
  /\ clock = 1
  /\ lastLoginRecorded \in {"", Days[1]}
  /\ requests = <<>>
  /\ streaksInvalidated = 0
  /\ LoginRest

\* A Layout mounts and its effect runs: today and the item are read, and the
\* request is sent when they differ (outcome "none": no request was sent).
MountLayout ==
  /\ Len(requests) < MaxMounts
  /\ IF NeedsRecording(lastLoginRecorded, Days[clock])
     THEN requests' = Append(requests, [today |-> Days[clock], outcome |-> "pending"])
     ELSE requests' = Append(requests, [today |-> Days[clock], outcome |-> "none"])
  /\ UNCHANGED <<clock, lastLoginRecorded, streaksInvalidated, loginFrame>>

\* await streakApi.recordLogin() returns: the item is written with the today
\* the effect read, and ['streaks'] is invalidated.
RecordLoginSucceeds(i) ==
  /\ requests[i].outcome = "pending"
  /\ requests' = [requests EXCEPT ![i].outcome = "ok"]
  /\ lastLoginRecorded' = requests[i].today
  /\ streaksInvalidated' = streaksInvalidated + 1
  /\ UNCHANGED <<clock, loginFrame>>

\* The request throws: the catch logs the error.
RecordLoginFails(i) ==
  /\ requests[i].outcome = "pending"
  /\ requests' = [requests EXCEPT ![i].outcome = "failed"]
  /\ UNCHANGED <<clock, lastLoginRecorded, streaksInvalidated, loginFrame>>

\* Midnight passes.
NextDay ==
  /\ clock < Len(Days)
  /\ clock' = clock + 1
  /\ UNCHANGED <<lastLoginRecorded, requests, streaksInvalidated, loginFrame>>

LoginNext ==
  \/ MountLayout
  \/ \E i \in 1..MaxMounts : i <= Len(requests) /\ RecordLoginSucceeds(i)
  \/ \E i \in 1..MaxMounts : i <= Len(requests) /\ RecordLoginFails(i)
  \/ NextDay

LoginSpec == LoginInit /\ [][LoginNext]_vars

(***************************************************************************)
(* The useSwipe hook.  One gesture is a touchstart, any number of          *)
(* touchmoves and a touchend.                                              *)
(***************************************************************************)
MaxCoord == 3

\* clientX and clientY of a touch.
Coords == 0..MaxCoord

\* The thresholds a caller may pass.
Thresholds == 0..MaxCoord

\* The callbacks of Layout, and all four.
CallbackSets ==
  { {"onSwipeLeft", "onSwipeRight"},
    {"onSwipeLeft", "onSwipeRight", "onSwipeUp", "onSwipeDown"} }

\* Math.abs
Abs(n) == IF n < 0 THEN -n ELSE n

\* isLeftSwipe && onSwipeLeft, and the three others: the callback is invoked
\* when its direction was swiped and the caller passed it.
CallIf(swiped, given, callback) ==
  IF swiped /\ callback \in given THEN <<callback>> ELSE <<>>

\* The horizontal judgement of onTouchEnd.
HorizontalCalls(distanceX, distanceY, minDistance, toleranceY, given) ==
  IF Abs(distanceY) < toleranceY
  THEN CallIf(distanceX > minDistance, given, "onSwipeLeft")
         \o CallIf(distanceX < -minDistance, given, "onSwipeRight")
  ELSE <<>>

\* The vertical judgement of onTouchEnd.
VerticalCalls(distanceX, distanceY, minDistance, toleranceX, given) ==
  IF Abs(distanceX) < toleranceX
  THEN CallIf(distanceY > minDistance, given, "onSwipeUp")
         \o CallIf(distanceY < -minDistance, given, "onSwipeDown")
  ELSE <<>>

\* The callbacks onTouchEnd invokes, in their order.
TouchEndCalls(start, end, minDistance, toleranceY, toleranceX, given) ==
  IF start = <<>> \/ end = <<>>
  THEN <<>>
  ELSE HorizontalCalls(start[1].x - end[1].x, start[1].y - end[1].y,
                       minDistance, toleranceY, given)
         \o VerticalCalls(start[1].x - end[1].x, start[1].y - end[1].y,
                          minDistance, toleranceX, given)

SwipeInit ==
  /\ minSwipeDistance \in Thresholds
  /\ maxSwipeDistanceY \in Thresholds
  /\ maxSwipeDistanceX \in Thresholds
  /\ callbacks \in CallbackSets
  /\ touchStart = <<>>
  /\ touchEnd = <<>>
  /\ touching = FALSE
  /\ onInteractive = FALSE
  /\ moved = FALSE
  /\ calls = <<>>
  /\ SwipeRest

swipeConfig == <<minSwipeDistance, maxSwipeDistanceY, maxSwipeDistanceX, callbacks>>

\* onTouchStart on an element inside input, textarea, select or .no-swipe
\* (interactive), or on another one.
OnTouchStart(x, y, interactive) ==
  /\ ~touching
  /\ touching' = TRUE
  /\ touchEnd' = <<>>
  /\ touchStart' = IF interactive THEN <<>> ELSE <<[x |-> x, y |-> y]>>
  /\ onInteractive' = interactive
  /\ moved' = FALSE
  /\ calls' = <<>>
  /\ UNCHANGED <<swipeConfig, swipeFrame>>

OnTouchMove(x, y) ==
  /\ touching
  /\ touchEnd' = <<[x |-> x, y |-> y]>>
  /\ moved' = TRUE
  /\ UNCHANGED <<touchStart, touching, onInteractive, calls, swipeConfig, swipeFrame>>

OnTouchEnd ==
  /\ touching
  /\ touching' = FALSE
  /\ calls' = calls \o TouchEndCalls(touchStart, touchEnd, minSwipeDistance,
                                     maxSwipeDistanceY, maxSwipeDistanceX, callbacks)
  /\ UNCHANGED <<touchStart, touchEnd, onInteractive, moved, swipeConfig, swipeFrame>>

SwipeNext ==
  \/ \E x \in Coords, y \in Coords, interactive \in BOOLEAN : OnTouchStart(x, y, interactive)
  \/ \E x \in Coords, y \in Coords : OnTouchMove(x, y)
  \/ OnTouchEnd

SwipeSpec == SwipeInit /\ [][SwipeNext]_vars

(***************************************************************************)
(* The heatmap carousel: the period state of the Dashboard, and the swipe  *)
(* handlers, timers and effects of Heatmap.  The track holds the panels    *)
(* previous | current | next; its transform is "centre" for                *)
(* translateX(-panelWidth), "next" for translateX(-2 * panelWidth), "prev" *)
(* for translateX(0), "dragged" while a finger moves it and "none" on the  *)
(* desktop layout.                                                         *)
(***************************************************************************)
YearCount == 3
MaxTimers == 2
MaxFrames == 2

\* new Date().getFullYear()
CurrentYear == 2024

\* years, minYear and maxYear of the Dashboard.
Years == (CurrentYear - YearCount + 1)..CurrentYear
minYear == CurrentYear - YearCount + 1
maxYear == CurrentYear

Halves == {"first", "second"}
Quarters == 1..4

\* window.innerWidth against the two breakpoints: [isMobile, isExtraSmall].
Viewports ==
  { [mobile |-> FALSE, extraSmall |-> FALSE],
    [mobile |-> TRUE, extraSmall |-> FALSE],
    [mobile |-> TRUE, extraSmall |-> TRUE] }

\* The half and quarter of the month the Dashboard was mounted in.
HalfAndQuarterOfToday ==
  { <<"first", 1>>, <<"first", 2>>, <<"second", 3>>, <<"second", 4>> }

\* A period handed to onPeriodChange; quarter 0 stands for undefined.
Period(y, h, q) == [year |-> y, half |-> h, quarter |-> q]

getPrevPeriod(y, h) ==
  IF h = "second" THEN Period(y, "first", 0) ELSE Period(y - 1, "second", 0)

getNextPeriod(y, h) ==
  IF h = "first" THEN Period(y, "second", 0) ELSE Period(y + 1, "first", 0)

\* const half = quarter <= 2 ? 'first' : 'second'
HalfOfQuarter(q) == IF q <= 2 THEN "first" ELSE "second"

getPrevQuarter(y, q) ==
  IF q > 1 THEN Period(y, HalfOfQuarter(q - 1), q - 1) ELSE Period(y - 1, "second", 4)

getNextQuarter(y, q) ==
  IF q < 4 THEN Period(y, HalfOfQuarter(q + 1), q + 1) ELSE Period(y + 1, "first", 1)

\* Fault injection for canGoPrev: no boundary check.
CanAlwaysGoPrev(y, h, q) == TRUE

canGoPrev(y, h, q) ==
  IF isExtraSmall THEN ~(y = minYear /\ q = 1)
  ELSE IF isMobile THEN ~(y = minYear /\ h = "first")
  ELSE y > minYear

canGoNext(y, h, q) ==
  IF isExtraSmall THEN ~(y = maxYear /\ q = 4)
  ELSE IF isMobile THEN ~(y = maxYear /\ h = "second")
  ELSE y < maxYear

\* The period the timer of goToNextPeriod hands to onPeriodChange.
NextTarget ==
  IF isExtraSmall THEN getNextQuarter(selectedYear, currentQuarter)
  ELSE getNextPeriod(selectedYear, currentHalf)

\* The period the timer of goToPrevPeriod hands to onPeriodChange.
PrevTarget ==
  IF isExtraSmall THEN getPrevQuarter(selectedYear, currentQuarter)
  ELSE getPrevPeriod(selectedYear, currentHalf)

\* The dependencies [isMobile, year, currentHalf] of the period-change effect
\* differ from those of the render before.
PeriodEffectRuns(mobile, y, h, q) ==
  mobile # isMobile \/ y # selectedYear \/ h # currentHalf

\* The transform handlePanelResize and the isMobile effect set for a layout.
LayoutTransform(mobile) == IF mobile THEN "centre" ELSE "none"

\* The render with the new state and the effects after it, the track being
\* at the transform track before: the isMobile effect sets the transform for
\* the layout, the period-change effect, on a mobile layout, resets the track
\* to the centre panel and requests the frames that clear isAnimatingRef.
Render(mobile, extraSmall, y, h, q, track) ==
  /\ isMobile' = mobile
  /\ isExtraSmall' = extraSmall
  /\ selectedYear' = y
  /\ currentHalf' = h
  /\ currentQuarter' = q
  /\ IF PeriodEffectRuns(mobile, y, h, q) /\ mobile
     THEN /\ trackTransform' = "centre"
          /\ clearFrames' = clearFrames + 1
     ELSE /\ trackTransform' = IF mobile = isMobile THEN track
                               ELSE LayoutTransform(mobile)
          /\ UNCHANGED clearFrames

\* onPeriodChange of the Dashboard: setSelectedYear, setCurrentHalf and, with
\* a quarter, setCurrentQuarter.
OnPeriodChange(target) ==
  Render(isMobile, isExtraSmall, target.year, target.half,
         IF target.quarter # 0 THEN target.quarter ELSE currentQuarter,
         trackTransform)

CarouselInit ==
  /\ selectedYear = CurrentYear
  /\ \E today \in HalfAndQuarterOfToday :
       /\ currentHalf = today[1]
       /\ currentQuarter = today[2]
  /\ \E viewport \in Viewports :
       /\ isMobile = viewport.mobile
       /\ isExtraSmall = viewport.extraSmall
       /\ trackTransform = LayoutTransform(viewport.mobile)
  /\ isDraggingRef = FALSE
  /\ isAnimatingRef = FALSE
  /\ periodTimers = <<>>
  /\ clearFrames = 0
  /\ CarouselRest

\* touchstart on the viewport, not on a link or a button.
HandleTouchStart ==
  /\ isMobile
  /\ isDraggingRef' = TRUE
  /\ UNCHANGED <<selectedYear, currentHalf, currentQuarter, isMobile, isExtraSmall,
                 isAnimatingRef, trackTransform, periodTimers, clearFrames, carouselFrame>>

HandleTouchMove ==
  /\ isDraggingRef
  /\ isMobile
  /\ trackTransform' = "dragged"
  /\ UNCHANGED <<selectedYear, currentHalf, currentQuarter, isMobile, isExtraSmall,
                 isDraggingRef, isAnimatingRef, periodTimers, clearFrames, carouselFrame>>

\* goToNextPeriod and goToPrevPeriod: the flag, the animation to the side
\* panel, and the timer with the period of this render.
GoToPeriod(side, target) ==
  /\ isAnimatingRef' = TRUE
  /\ trackTransform' = side
  /\ periodTimers' = Append(periodTimers, target)

snapToCenter ==
  /\ trackTransform' = "centre"
  /\ UNCHANGED <<isAnimatingRef, periodTimers>>

\* touchend with deltaX beyond the threshold to the left or to the right, or
\* within it.
HandleTouchEnd(swipe) ==
  /\ isDraggingRef
  /\ isMobile
  /\ Len(periodTimers) < MaxTimers
  /\ isDraggingRef' = FALSE
  /\ IF swipe = "left" /\ canGoNext(selectedYear, currentHalf, currentQuarter)
     THEN GoToPeriod("next", NextTarget)
     ELSE IF swipe = "right" /\ canGoPrev(selectedYear, currentHalf, currentQuarter)
     THEN GoToPeriod("prev", PrevTarget)
     ELSE snapToCenter
  /\ UNCHANGED <<selectedYear, currentHalf, currentQuarter, isMobile, isExtraSmall,
                 clearFrames, carouselFrame>>

\* The oldest 300 ms timer fires.
PeriodTimerFires ==
  /\ periodTimers # <<>>
  /\ clearFrames < MaxFrames
  /\ periodTimers' = Tail(periodTimers)
  /\ OnPeriodChange(Head(periodTimers))
  /\ UNCHANGED <<isDraggingRef, isAnimatingRef, carouselFrame>>

\* The second of the two animation frames of the period-change effect.
AnimationFrame ==
  /\ clearFrames > 0
  /\ clearFrames' = clearFrames - 1
  /\ isAnimatingRef' = FALSE
  /\ UNCHANGED <<selectedYear, currentHalf, currentQuarter, isMobile, isExtraSmall,
                 isDraggingRef, trackTransform, periodTimers, carouselFrame>>

HandleYearChange(y) ==
  /\ clearFrames < MaxFrames
  /\ Render(isMobile, isExtraSmall, y, "first", 1, trackTransform)
  /\ UNCHANGED <<isDraggingRef, isAnimatingRef, periodTimers, carouselFrame>>

\* The half-year selector is rendered on the half-year layout only.
HandleHalfChange(h) ==
  /\ isMobile /\ ~isExtraSmall
  /\ clearFrames < MaxFrames
  /\ Render(isMobile, isExtraSmall, selectedYear, h, currentQuarter, trackTransform)
  /\ UNCHANGED <<isDraggingRef, isAnimatingRef, periodTimers, carouselFrame>>

\* The quarter selector is rendered on the quarter layout only.
HandleQuarterChange(q) ==
  /\ isExtraSmall
  /\ Render(isMobile, isExtraSmall, selectedYear, currentHalf, q, trackTransform)
  /\ UNCHANGED <<isDraggingRef, isAnimatingRef, periodTimers, carouselFrame>>

\* A resize of the window: handlePanelResize of Heatmap sets the transform
\* for the layout it was rendered with, handleViewportResize of the Dashboard
\* sets the layout of the new width, and the render and its effects follow.
HandleViewportResize(viewport) ==
  /\ clearFrames < MaxFrames
  /\ Render(viewport.mobile, viewport.extraSmall, selectedYear, currentHalf, currentQuarter,
            LayoutTransform(isMobile))
  /\ UNCHANGED <<isDraggingRef, isAnimatingRef, periodTimers, carouselFrame>>

CarouselNext ==
  \/ HandleTouchStart
  \/ HandleTouchMove
  \/ \E swipe \in {"left", "right", "short"} : HandleTouchEnd(swipe)
  \/ PeriodTimerFires
  \/ AnimationFrame
  \/ \E y \in Years : HandleYearChange(y)
  \/ \E h \in Halves : HandleHalfChange(h)
  \/ \E q \in Quarters : HandleQuarterChange(q)
  \/ \E viewport \in Viewports : HandleViewportResize(viewport)

CarouselSpec == CarouselInit /\ [][CarouselNext]_vars

(***************************************************************************)
(* Properties of the replay.                                               *)
(***************************************************************************)
\* The visits already made, in order.
Visited ==
  LET all == Steps(sortedRecords) IN SubSeq(all, 1, Len(all) - Len(queue))

\* The replay is about to process a set.
AtSet == pc = "replay" /\ queue # <<>> /\ Head(queue).kind = "set"

\* C1: during the replay, a set whose weight is strictly greater than the
\* running max weight of its exercise name stores an entry at
\* getPRKey(date, name, setIndex) with maxWeightPR and repPR both true and the
\* set's weight and reps, makes the running max weight that weight and resets
\* the running max reps to that set's reps, even when the earlier reps
\* maximum was larger.
C1_NewMaxWeightStoresAndResets ==
  [][ (AtSet /\ Head(queue).weight > maxWeightByExercise[Head(queue).name]) =>
        LET v == Head(queue)
            k == getPRKey(v.date, v.name, v.setIndex)
        IN  /\ k \in DOMAIN prData'
            /\ prData'[k].maxWeightPR
            /\ prData'[k].repPR
            /\ prData'[k].weight = v.weight
            /\ prData'[k].reps = v.reps
            /\ maxWeightByExercise'[v.name] = v.weight
            /\ maxRepsAtMaxWeight'[v.name] = v.reps ]_vars

\* A new max weight was just recorded with fewer reps than an earlier PR of
\* the same exercise, and the running reps maximum is the new set's reps.
C1_Witness ==
  /\ pc = "replay"
  /\ \E k1, k2 \in DOMAIN prData :
       /\ prData[k1].exercise = prData[k2].exercise
       /\ prData[k2].maxWeightPR
       /\ prData[k2].weight > prData[k1].weight
       /\ prData[k2].reps < prData[k1].reps
       /\ maxWeightByExercise[prData[k2].exercise] = prData[k2].weight
       /\ maxRepsAtMaxWeight[prData[k2].exercise] = prData[k2].reps

\* C2: during the replay, a set whose weight equals the running max weight of
\* its exercise and whose reps are strictly greater than the running max reps
\* stores an entry with repPR true and maxWeightPR false, raises the running
\* max reps to its reps and leaves the running max weights unchanged.
C2_RepPRAtMaxWeight ==
  [][ (/\ AtSet
       /\ Head(queue).weight = maxWeightByExercise[Head(queue).name]
       /\ Head(queue).reps > maxRepsAtMaxWeight[Head(queue).name]) =>
        LET v == Head(queue)
            k == getPRKey(v.date, v.name, v.setIndex)
        IN  /\ k \in DOMAIN prData'
            /\ prData'[k].repPR
            /\ ~prData'[k].maxWeightPR
            /\ prData'[k].weight = v.weight
            /\ prData'[k].reps = v.reps
            /\ maxRepsAtMaxWeight'[v.name] = v.reps
            /\ maxWeightByExercise' = maxWeightByExercise ]_vars

\* A rep-only entry was recorded at a positive max weight that an earlier
\* max-weight PR of the same exercise had set.
C2_Witness ==
  /\ pc = "replay"
  /\ \E k1, k2 \in DOMAIN prData :
       /\ prData[k1].exercise = prData[k2].exercise
       /\ prData[k1].maxWeightPR
       /\ prData[k2].repPR /\ ~prData[k2].maxWeightPR
       /\ prData[k2].weight = prData[k1].weight
       /\ prData[k2].reps > prData[k1].reps
       /\ maxWeightByExercise[prData[k2].exercise] = prData[k2].weight
       /\ maxRepsAtMaxWeight[prData[k2].exercise] = prData[k2].reps

\* An earlier set of the same exercise name was logged at the same weight with
\* at least as many reps.
AlreadyLogged(v) ==
  \E j \in 1..Len(Visited) :
    /\ Visited[j].kind = "set"
    /\ Visited[j].name = v.name
    /\ Visited[j].weight = v.weight
    /\ Visited[j].reps >= v.reps

\* C3: for every exercise name and every weight, 0 kg included, a set that
\* repeats an already recorded best (weight equal to the running max weight,
\* reps at most the reps of an earlier set logged at that weight) creates no
\* prMap entry, and neither does a set whose weight is below the running max.
C3_RepeatedBestCreatesNoEntry ==
  [][ (/\ AtSet
       /\ \/ Head(queue).weight < maxWeightByExercise[Head(queue).name]
          \/ /\ Head(queue).weight = maxWeightByExercise[Head(queue).name]
             /\ AlreadyLogged(Head(queue))) =>
        prData' = prData ]_vars

(***************************************************************************)
(* Properties of the returned result.                                      *)
(***************************************************************************)
Returned == pc = "done"

\* The positions of the set visits of the replay, in replay order.
SetPositions ==
  { j \in 1..Len(Steps(sortedRecords)) : Steps(sortedRecords)[j].kind = "set" }

\* The running result when the replay reaches its j-th visit.
ResultBefore(j) == Replay(EmptyResult, SubSeq(Steps(sortedRecords), 1, j - 1))

\* The j-th visit took the max-weight branch at its turn.
WasMaxWeightPR(j) == IsNewMaxWeight(ResultBefore(j), Steps(sortedRecords)[j])

\* The j-th visit was record-setting at its turn: one of the two branches ran.
WasRecordSetting(j) ==
  \/ IsNewMaxWeight(ResultBefore(j), Steps(sortedRecords)[j])
  \/ IsNewRepAtMax(ResultBefore(j), Steps(sortedRecords)[j])

KeyOf(v) == getPRKey(v.date, v.name, v.setIndex)

\* C4: in the returned prMap, for every set at position i of an exercise named
\* n in a record dated d, whatever the shape of the record (the same exercise
\* name may be listed more than once), getPRKey(d, n, i) is a key if and only
\* if that very set was record-setting at its turn in the replay, and the
\* entry stored there carries that set's weight and reps.
C4_KeyIffThatSetWasRecordSetting ==
  Returned =>
    \A j \in SetPositions :
      LET v == Steps(sortedRecords)[j] IN
      /\ KeyOf(v) \in DOMAIN prData <=> WasRecordSetting(j)
      /\ KeyOf(v) \in DOMAIN prData =>
           /\ prData[KeyOf(v)].weight = v.weight
           /\ prData[KeyOf(v)].reps = v.reps

SetMax(S) == CHOOSE x \in S : \A y \in S : y <= x

\* The sets of the exercises named n anywhere in the argument.
SetsNamed(n) ==
  { j \in 1..Len(Steps(records)) :
      Steps(records)[j].kind = "set" /\ Steps(records)[j].name = n }

\* The names of the exercises of the argument.
NamesUsed == { Steps(records)[j].name : j \in 1..Len(Steps(records)) }

\* The greatest weight over all sets named n, 0 when there is none.
GreatestWeight(n) == SetMax({0} \cup { Steps(records)[j].weight : j \in SetsNamed(n) })

\* The greatest reps over all sets named n at the greatest weight.
GreatestRepsAtGreatestWeight(n) ==
  SetMax({0} \cup { Steps(records)[j].reps :
                    j \in { i \in SetsNamed(n) :
                            Steps(records)[i].weight = GreatestWeight(n) } })

\* C5: on return, for every exercise name n occurring in the records,
\* maxWeightByExercise[n] is the greatest weight over all sets of n (0 when
\* none is positive) and maxRepsAtMaxWeight[n] is the greatest reps among the
\* sets of n at that weight, also when the all-time maximum is 0 kg.
C5_MaximaAreAllTimeBest ==
  Returned =>
    \A n \in NamesUsed :
      /\ n \in DOMAIN maxWeightByExercise
      /\ maxWeightByExercise[n] = GreatestWeight(n)
      /\ maxRepsAtMaxWeight[n] = GreatestRepsAtGreatestWeight(n)

\* C6 as stated: after the second pass every entry, max-weight PR or rep-only
\* PR, whose weight equals the final max weight of its exercise has
\* isCurrentMaxPR.
C6_EveryEntryAtFinalMaxIsCurrentMax ==
  Returned =>
    \A k \in DOMAIN prData :
      prData[k].weight = maxWeightByExercise[prData[k].exercise] =>
        prData[k].isCurrentMaxPR

\* C6 amended: after the second pass every entry created as a max-weight PR
\* whose weight equals the final max weight of its exercise has
\* isCurrentMaxPR, and an entry created as a rep-only PR never has it.
C6_MaxWeightEntryAtFinalMaxIsCurrentMax ==
  Returned =>
    \A k \in DOMAIN prData :
      /\ (/\ prData[k].maxWeightPR
          /\ prData[k].weight = maxWeightByExercise[prData[k].exercise]) =>
           prData[k].isCurrentMaxPR
      /\ ~prData[k].maxWeightPR => ~prData[k].isCurrentMaxPR

\* Returned with a current max-weight entry and, for the same exercise, a
\* rep-only entry at the final max weight that is not marked isCurrentMaxPR.
C6_Witness ==
  /\ Returned
  /\ \E k1, k2 \in DOMAIN prData :
       /\ prData[k1].exercise = prData[k2].exercise
       /\ prData[k1].maxWeightPR /\ prData[k1].isCurrentMaxPR
       /\ ~prData[k2].maxWeightPR
       /\ prData[k2].weight = maxWeightByExercise[prData[k2].exercise]
       /\ ~prData[k2].isCurrentMaxPR

\* A later visit of the replay is a strictly heavier set of the same exercise.
BeatenLater(j) ==
  \E i \in SetPositions :
    /\ i > j
    /\ Steps(sortedRecords)[i].name = Steps(sortedRecords)[j].name
    /\ Steps(sortedRecords)[i].weight > Steps(sortedRecords)[j].weight

\* C7: the entry of a set that was a max-weight PR at its turn and is later
\* beaten by a strictly heavier set of the same exercise keeps maxWeightPR and
\* repPR in the returned prMap and has neither current flag; the entry of a
\* max-weight PR set that no heavier set follows has isCurrentMaxPR.
C7_BeatenMaxPRKeepsBadgeLosesCurrent ==
  Returned =>
    \A j \in SetPositions :
      WasMaxWeightPR(j) =>
        LET k == KeyOf(Steps(sortedRecords)[j]) IN
        /\ k \in DOMAIN prData
        /\ BeatenLater(j) =>
             /\ prData[k].maxWeightPR /\ prData[k].repPR
             /\ ~prData[k].isCurrentMaxPR /\ ~prData[k].isCurrentRepPR
        /\ ~BeatenLater(j) => prData[k].isCurrentMaxPR

\* C8: after the second pass an entry has isCurrentRepPR if and only if its
\* weight equals the final max weight of its exercise and its reps equal the
\* final max reps at that weight.
C8_CurrentRepIffFinalWeightAndReps ==
  Returned =>
    \A k \in DOMAIN prData :
      prData[k].isCurrentRepPR <=>
        /\ prData[k].weight = maxWeightByExercise[prData[k].exercise]
        /\ prData[k].reps = maxRepsAtMaxWeight[prData[k].exercise]

\* Returned with two entries of one exercise at the final max weight, the one
\* with the final max reps marked isCurrentRepPR and the other not.
C8_Witness ==
  /\ Returned
  /\ \E k1, k2 \in DOMAIN prData :
       /\ prData[k1].exercise = prData[k2].exercise
       /\ prData[k1].weight = maxWeightByExercise[prData[k1].exercise]
       /\ prData[k2].weight = prData[k1].weight
       /\ prData[k1].reps < prData[k2].reps
       /\ ~prData[k1].isCurrentRepPR
       /\ prData[k2].isCurrentRepPR

\* The orderings of a record list.
Orderings(rs) ==
  { [i \in 1..Len(rs) |-> rs[f[i]]] : f \in Permutations(1..Len(rs)) }

\* C9: for every record list with at most one record per date and every
\* permutation of it, calculatePRs returns the same prMap (keys, flags and
\* values) and the same two maxima mappings.
C9_OrderOfInputIsIrrelevant ==
  Returned => \A p \in Orderings(records) : calculatePRs(p) = Result

\* Returned for an argument given newest first, in which the later record
\* beats a max-weight PR of the earlier one.
C9_Witness ==
  /\ Returned
  /\ Len(records) = 2
  /\ records # sortedRecords
  /\ \E k1, k2 \in DOMAIN prData :
       /\ prData[k1].date = sortedRecords[1].date
       /\ prData[k2].date = sortedRecords[2].date
       /\ prData[k1].exercise = prData[k2].exercise
       /\ prData[k2].weight > prData[k1].weight

\* The record list with every exercise of a name other than n removed.
OnlyName(rs, n) ==
  [i \in 1..Len(rs) |->
     [date |-> rs[i].date,
      exercises |-> SelectSeq(rs[i].exercises, LAMBDA e : e.name = n)]]

\* C10: for any record list and any exercise name n, the prMap entries whose
\* exercise is n and the two maxima for n are those calculatePRs returns for
\* the same records with every exercise of another name removed; names that
\* differ only in case are different names.
C10_ExerciseNamesAreIsolated ==
  Returned =>
    \A n \in Names :
      LET alone == calculatePRs(OnlyName(records, n))
          mine == { k \in DOMAIN prData : prData[k].exercise = n }
      IN  /\ DOMAIN alone.prData = mine
          /\ \A k \in mine : alone.prData[k] = prData[k]
          /\ DOMAIN alone.maxWeightByExercise = DOMAIN maxWeightByExercise \cap {n}
          /\ DOMAIN alone.maxRepsAtMaxWeight = DOMAIN maxRepsAtMaxWeight \cap {n}
          /\ n \in DOMAIN maxWeightByExercise =>
               /\ alone.maxWeightByExercise[n] = maxWeightByExercise[n]
               /\ alone.maxRepsAtMaxWeight[n] = maxRepsAtMaxWeight[n]

\* Returned with a PR of "squat" that is lighter than, and later than, a PR
\* of "Squat".
C10_Witness ==
  /\ Returned
  /\ \E k1, k2 \in DOMAIN prData :
       /\ prData[k1].exercise = "Squat"
       /\ prData[k2].exercise = "squat"
       /\ GetTime(prData[k1].date) < GetTime(prData[k2].date)
       /\ prData[k2].weight < prData[k1].weight
       /\ prData[k2].isCurrentMaxPR

\* C11: calculatePRs does not mutate its argument: at every step of the call
\* the records array holds the same records in the same order as before the
\* step (the sort works on a copy), and no record, exercise or set changes.
C11_ArgumentIsNotMutated == [][records' = records]_vars

\* Returned for an argument that was not in date order: the copy is sorted
\* and the argument still is not.
C11_Witness ==
  /\ Returned
  /\ sortedRecords = SortByDate(records)
  /\ records # SortByDate(records)

\* The set about to be processed follows, in the same exercise of the same
\* record, a set of the same weight that was a new max weight at its turn,
\* and that weight is still the running max.
RepeatsNewMaxOfItsExercise ==
  /\ AtSet
  /\ Head(queue).weight = maxWeightByExercise[Head(queue).name]
  /\ \E j \in 1..Len(Visited) :
       /\ Visited[j].kind = "set"
       /\ Visited[j].date = Head(queue).date
       /\ Visited[j].exIndex = Head(queue).exIndex
       /\ Visited[j].setIndex < Head(queue).setIndex
       /\ Visited[j].weight = Head(queue).weight
       /\ WasMaxWeightPR(j)

\* C13 as stated: when two sets of one exercise of one record both carry the
\* same new all-time max weight, the set with the higher setIndex creates no
\* entry, whatever its reps.
C13_LaterEqualWeightSetGetsNoEntry ==
  [][ RepeatsNewMaxOfItsExercise => prData' = prData ]_vars

\* C13 amended: the later set creates no entry when its reps do not exceed the
\* running max reps at that weight; when they do, it creates a rep-only entry
\* (repPR true, maxWeightPR false) with its own weight and reps.
C13_LaterEqualWeightSetGetsNoMaxWeightEntry ==
  [][ RepeatsNewMaxOfItsExercise =>
        LET v == Head(queue) IN
        IF v.reps <= maxRepsAtMaxWeight[v.name]
        THEN prData' = prData
        ELSE /\ KeyOf(v) \in DOMAIN prData'
             /\ prData'[KeyOf(v)].repPR
             /\ ~prData'[KeyOf(v)].maxWeightPR
             /\ prData'[KeyOf(v)].weight = v.weight
             /\ prData'[KeyOf(v)].reps = v.reps
             /\ maxWeightByExercise' = maxWeightByExercise ]_vars

\* The replay has just passed the second of two sets of one exercise at the
\* same new max weight and the same reps: the first has its max-weight entry,
\* the second has none.
C13_Witness ==
  /\ pc = "replay"
  /\ Len(Visited) >= 2
  /\ LET v == Visited[Len(Visited)]
         u == Visited[Len(Visited) - 1]
     IN  /\ u.kind = "set" /\ v.kind = "set"
         /\ u.date = v.date /\ u.exIndex = v.exIndex
         /\ u.weight = v.weight /\ u.reps = v.reps
         /\ WasMaxWeightPR(Len(Visited) - 1)
         /\ KeyOf(u) \in DOMAIN prData
         /\ prData[KeyOf(u)].maxWeightPR
         /\ KeyOf(v) \notin DOMAIN prData

(***************************************************************************)
(* Properties on sparse input.                                             *)
(***************************************************************************)
\* The exercises of a record that have at least one set.
ExercisesWithSets(r) ==
  IF "exercises" \notin DOMAIN r THEN <<>>
  ELSE SelectSeq(r.exercises, LAMBDA e : "sets" \in DOMAIN e /\ Len(e.sets) > 0)

\* The record without its exercises that have no set.
WithoutEmptyExercises(r) == [date |-> r.date, exercises |-> ExercisesWithSets(r)]

\* The list without its records that have no exercise with a set.
WithoutSparseParts(rs) ==
  SelectSeq([i \in 1..Len(rs) |-> WithoutEmptyExercises(rs[i])],
            LAMBDA r : Len(r.exercises) > 0)

\* C12: on an empty record list, on records whose exercises array is missing
\* or empty and on exercises whose sets array is missing or empty,
\* calculatePRs and getPRSummaryForRecord throw nothing; such records and
\* exercises contribute no prMap key and no summary item; and calculatePRs([])
\* returns an empty prMap and maxima mappings without a non-zero value.
C12_SparseInputIsTolerated ==
  /\ \A i \in 1..Len(queue) : queue[i].kind # "TypeError"
  /\ \A i \in 1..Len(visits) : visits[i].kind # "TypeError"
  /\ Returned =>
       /\ DOMAIN prData = DOMAIN calculatePRs(WithoutSparseParts(records)).prData
       /\ Len(records) = 0 =>
            /\ DOMAIN prData = {}
            /\ \A n \in DOMAIN maxWeightByExercise : maxWeightByExercise[n] = 0
            /\ \A n \in DOMAIN maxRepsAtMaxWeight : maxRepsAtMaxWeight[n] = 0
  /\ spc = "returned" =>
       /\ Summary = getPRSummaryForRecord(WithoutEmptyExercises(record), prMap)
       /\ Len(ExercisesWithSets(record)) = 0 => ~hasPR /\ ~hasNowPR /\ Len(prSummary) = 0

\* Both functions have returned: the summary is that of a record without
\* exercises field, and the list also holds a record with one exercise
\* without sets field and one exercise that has a PR entry.
C12_Witness ==
  /\ Returned
  /\ spc = "returned"
  /\ "exercises" \notin DOMAIN record
  /\ Len(prSummary) = 0
  /\ \E i \in 1..Len(records) :
       /\ "exercises" \in DOMAIN records[i]
       /\ \E j, k \in 1..Len(records[i].exercises) :
            /\ "sets" \notin DOMAIN records[i].exercises[j]
            /\ "sets" \in DOMAIN records[i].exercises[k]
            /\ getPRKey(records[i].date, records[i].exercises[k].name, 0) \in DOMAIN prData

(***************************************************************************)
(* Properties of getPRSummaryForRecord.                                    *)
(***************************************************************************)
SummaryReturned == spc = "returned"

\* The (exercise, setIndex) positions of the record, in stored order.
Positions == SummaryVisits(record)

\* The positions whose key is a key of the PR map.
PositionsInMap == { i \in 1..Len(Positions) : KeyOf(Positions[i]) \in DOMAIN prMap }

\* The positions whose entry was a PR of either kind.
PositionsWithPR ==
  { i \in PositionsInMap :
      prMap[KeyOf(Positions[i])].maxWeightPR \/ prMap[KeyOf(Positions[i])].repPR }

C15_HasNowPRIffSomeCurrentEntry ==
  SummaryReturned =>
    /\ hasNowPR <=>
         \E i \in PositionsInMap :
           \/ prMap[KeyOf(Positions[i])].isCurrentMaxPR
           \/ prMap[KeyOf(Positions[i])].isCurrentRepPR
    /\ hasNowPR => hasPR

\* Returned hasNowPR for a record whose only current entry is a rep-only PR
\* and whose other position has a beaten entry.
C15_Witness ==
  /\ SummaryReturned
  /\ hasNowPR
  /\ Cardinality(PositionsInMap) = 2
  /\ \A i \in PositionsInMap : ~prMap[KeyOf(Positions[i])].isCurrentMaxPR
  /\ \E i \in PositionsInMap :
       /\ ~prMap[KeyOf(Positions[i])].isCurrentMaxPR
       /\ ~prMap[KeyOf(Positions[i])].isCurrentRepPR

\* The item was pushed for the position: the name, weight and reps are those
\* of the set and the four flags those of the entry at the position's key.
ItemOfPosition(item, v) ==
  /\ KeyOf(v) \in DOMAIN prMap
  /\ item.exercise = v.name
  /\ item.weight = v.weight
  /\ item.reps = v.reps
  /\ item.isMaxWeightPR = prMap[KeyOf(v)].maxWeightPR
  /\ item.isRepPR = prMap[KeyOf(v)].repPR
  /\ item.isCurrentMaxPR = prMap[KeyOf(v)].isCurrentMaxPR
  /\ item.isCurrentRepPR = prMap[KeyOf(v)].isCurrentRepPR

\* C16: the summary lists its items in the stored iteration order of the
\* record (exercises in order, sets by ascending setIndex, not sorted by
\* weight or flag): the items are those of a strictly increasing choice of
\* positions, and each item carries the four flags of the entry at its
\* position.
C16_SummaryKeepsIterationOrder ==
  SummaryReturned =>
    \E f \in [1..Len(prSummary) -> 1..Len(Positions)] :
      /\ \A i, j \in 1..Len(prSummary) : i < j => f[i] < f[j]
      /\ \A i \in 1..Len(prSummary) : ItemOfPosition(prSummary[i], Positions[f[i]])

\* Returned two items, the lighter set after the heavier one as stored, the
\* first a max-weight PR and the second not.
C16_Witness ==
  /\ SummaryReturned
  /\ Len(prSummary) = 2
  /\ prSummary[1].weight > prSummary[2].weight
  /\ prSummary[1].isMaxWeightPR
  /\ ~prSummary[2].isMaxWeightPR
  /\ Positions[1].weight > Positions[2].weight

(***************************************************************************)
(* Properties of the date lookups.                                         *)
(***************************************************************************)
CellLookedUp == spc = "cell"

\* The key is the date string, then an underscore, then anything.
IsDateThenUnderscore(key, dateStr) ==
  /\ Len(key) > Len(dateStr)
  /\ \A i \in 1..Len(dateStr) : SubSeq(key, i, i) = SubSeq(dateStr, i, i)
  /\ SubSeq(key, Len(dateStr) + 1, Len(dateStr) + 1) = "_"

\* C17: dateHasPR(prMap, d) is true if and only if at least one key of prMap
\* starts with d followed by an underscore; for an empty prMap it is false.
C17_DateHasPRIffKeyWithPrefix ==
  CellLookedUp =>
    /\ cell.hasPR <=> \E k \in DOMAIN prMap : IsDateThenUnderscore(k, cell.dateStr)
    /\ DOMAIN prMap = {} => ~cell.hasPR

\* Looked up a month: keys begin with it, none continues with an underscore.
C17_Witness ==
  /\ CellLookedUp
  /\ cell.dateStr = "2024-02"
  /\ \E k \in DOMAIN prMap : StartsWith(k, cell.dateStr)
  /\ ~cell.hasPR

\* C18: dateHasCurrentPR(prMap, d) is true if and only if some key with
\* prefix d + "_" maps to an entry with isCurrentMaxPR or isCurrentRepPR
\* true; hence dateHasCurrentPR(prMap, d) implies dateHasPR(prMap, d).
C18_DateHasCurrentPRIffCurrentEntry ==
  CellLookedUp =>
    /\ cell.hasCurrentPR <=>
         \E k \in DOMAIN prMap :
           /\ IsDateThenUnderscore(k, cell.dateStr)
           /\ prMap[k].isCurrentMaxPR \/ prMap[k].isCurrentRepPR
    /\ cell.hasCurrentPR => cell.hasPR

\* Looked up a date whose only current entry is a rep-only PR, while the
\* other date has a current max-weight PR.
C18_Witness ==
  /\ CellLookedUp
  /\ cell.dateStr = "2024-02-01"
  /\ cell.hasCurrentPR
  /\ \A k \in DOMAIN prMap :
       IsDateThenUnderscore(k, cell.dateStr) => ~prMap[k].isCurrentMaxPR
  /\ \E k \in DOMAIN prMap :
       /\ ~IsDateThenUnderscore(k, cell.dateStr)
       /\ prMap[k].isCurrentMaxPR

(***************************************************************************)
(* Properties of getPRKey.                                                 *)
(***************************************************************************)
KeysMade == Len(keys) = 2

\* C19: for ISO dates, any exercise names (also with "_" or digits) and set
\* indices from 0, two different (date, exerciseName, setIndex) triples never
\* get the same key.
C19_GetPRKeyIsInjective ==
  KeysMade => (keys[1] = keys[2] => triples[1] = triples[2])

\* Keys made for two different triples of one date whose names and indices
\* spell the same characters: the keys have the same length and differ.
C19_Witness ==
  /\ KeysMade
  /\ triples[1].date = triples[2].date
  /\ triples[1].exerciseName = "Squat1"
  /\ triples[1].setIndex = 1
  /\ triples[2].exerciseName = "Squat"
  /\ triples[2].setIndex = 11
  /\ Len(keys[1]) = Len(keys[2])
  /\ keys[1] # keys[2]

(***************************************************************************)
(* Properties of RecordModal.handleSave.                                   *)
(***************************************************************************)
\* The number a field holds, as the number input reads its text.
Entered(str) == parseFloat(str)

\* The field holds a text that is no number or a number outside 0..max.
EnteredOutOfRange(str, max) == str # "" /\ OutOfRange(Entered(str), max)

\* The rows with an entered weight outside 0..500 or reps outside 0..20.
RowsOutOfRange ==
  { index \in 0..(Len(sets) - 1) :
      \/ EnteredOutOfRange(sets[index + 1].weight, 500)
      \/ EnteredOutOfRange(sets[index + 1].reps, 20) }

\* The number is within 0..max.
WithinRange(x, max) == ~x.nan /\ x.num >= 0 /\ x.num <= max * x.den

\* C20: handleSave calls onSave only with sets that have weight and reps
\* present and within 0..500 and 0..20; if any row holds an entered weight or
\* reps outside its range or no number, onSave is not called and the row's
\* error is recorded; rows without weight or reps are dropped, and onSave is
\* not called when no row is left.
C20_HandleSaveSendsOnlyValidSets ==
  [][ handler' = "handleSave" =>
        /\ RowsOutOfRange # {} =>
             /\ onSave' = onSave
             /\ RowsOutOfRange \subseteq DOMAIN validationErrors'
        /\ Len(ValidSets(sets)) = 0 => onSave' = onSave
        /\ onSave' # onSave =>
             LET sent == onSave'[Len(onSave')].exercises[1].sets IN
             /\ Len(sent) = Len(ValidSets(sets))
             /\ Len(sent) >= 1
             /\ \A i \in 1..Len(sent) :
                  /\ WithinRange(sent[i].weight, 500)
                  /\ WithinRange(sent[i].reps, 20) ]_vars

(***************************************************************************)
(* Current-PR badges per exercise name.                                    *)
(***************************************************************************)

\* The keys of the returned prData whose entry belongs to exercise name n.
EntriesOf(n) == { k \in DOMAIN prData : prData[k].exercise = n }

\* The names that have at least one entry in the returned prData.
NamesWithEntries == { prData[k].exercise : k \in DOMAIN prData }

\* C22: in the returned prMap every exercise name with at least one entry has
\* exactly one entry with isCurrentRepPR and at most one entry with
\* isCurrentMaxPR.
C22_OneCurrentRepPRPerExercise ==
  Returned =>
    \A n \in NamesWithEntries :
      /\ Cardinality({ k \in EntriesOf(n) : prData[k].isCurrentRepPR }) = 1
      /\ Cardinality({ k \in EntriesOf(n) : prData[k].isCurrentMaxPR }) <= 1

(***************************************************************************)
(* Calendar stars against record cards.                                    *)
(***************************************************************************)

\* C23: for the prMap returned by calculatePRs and every record of the list,
\* dateHasPR of the record's date equals hasPR of the record's summary and
\* dateHasCurrentPR equals hasNowPR; for a date without record both date
\* lookups are false.
C23_CalendarAgreesWithCard ==
  Returned =>
    /\ \A i \in 1..Len(records) :
         /\ dateHasPR(prData, records[i].date)
              = getPRSummaryForRecord(records[i], prData).hasPR
         /\ dateHasCurrentPR(prData, records[i].date)
              = getPRSummaryForRecord(records[i], prData).hasNowPR
    /\ \A d \in Dates :
         (\A i \in 1..Len(records) : records[i].date # d) =>
           ~dateHasPR(prData, d) /\ ~dateHasCurrentPR(prData, d)

\* Returned with two records: one whose card and star show a PR that is no
\* longer current, and one whose card and star show a current PR.
C23_Witness ==
  /\ Returned
  /\ \E i, j \in 1..Len(records) :
       /\ dateHasPR(prData, records[i].date)
       /\ getPRSummaryForRecord(records[i], prData).hasPR
       /\ ~dateHasCurrentPR(prData, records[i].date)
       /\ dateHasCurrentPR(prData, records[j].date)
       /\ getPRSummaryForRecord(records[j], prData).hasNowPR

(***************************************************************************)
(* Properties of findPreviousRecordForExercise.                            *)
(***************************************************************************)
PreviousReturned == fpc = "returned"

\* The positions in a record's exercises of the exercises with the id.
ExercisesWithId(rec, id) ==
  IF "exercises" \in DOMAIN rec
  THEN { j \in 1..Len(rec.exercises) : rec.exercises[j].id = id }
  ELSE {}

\* No record of the history lists the id twice, so that each record has at
\* most one exercise with the id.
OneExercisePerId ==
  \A i \in 1..Len(history) : Cardinality(ExercisesWithId(history[i], exerciseIdArg)) <= 1

\* The records of another date that contain the exercise with a set.
Eligible ==
  { i \in 1..Len(history) :
      /\ history[i].date # currentDate
      /\ \E j \in ExercisesWithId(history[i], exerciseIdArg) :
           /\ "sets" \in DOMAIN history[i].exercises[j]
           /\ Len(history[i].exercises[j].sets) > 0 }

\* The latest dated of the eligible records.
LatestEligible ==
  CHOOSE i \in Eligible :
    \A k \in Eligible : GetTime(history[k].date) <= GetTime(history[i].date)

\* The (weight, reps) list of the exercise with the id in record i.
WeightsAndRepsOf(i) ==
  LET j == CHOOSE x \in ExercisesWithId(history[i], exerciseIdArg) : TRUE
      stored == history[i].exercises[j].sets
  IN  [n \in 1..Len(stored) |-> [weight |-> stored[n].weight, reps |-> stored[n].reps]]

\* C29: findPreviousRecordForExercise returns the (weight, reps) list, in
\* stored order, of the exercise with the id in the latest dated record whose
\* date differs from currentDate and that contains the exercise with at least
\* one set; it returns null when there is no such record, never the sets of
\* the record dated currentDate, and the records array stays as it was.
C29_ReturnsLatestOtherDateSets ==
  /\ [](PreviousReturned /\ OneExercisePerId =>
          IF Eligible = {} THEN previousSets.null
          ELSE /\ ~previousSets.null
               /\ history[LatestEligible].date # currentDate
               /\ previousSets.sets = WeightsAndRepsOf(LatestEligible))
  /\ [][history' = history]_vars

\* Returned with the sets of the older of two other-date records given out of
\* date order, the later one listing the exercise without sets.
C29_Witness ==
  /\ PreviousReturned
  /\ OneExercisePerId
  /\ Len(history) = 2
  /\ Eligible = {1}
  /\ GetTime(history[1].date) < GetTime(history[2].date)
  /\ history[2].date # currentDate
  /\ ExercisesWithId(history[2], exerciseIdArg) # {}
  /\ ~previousSets.null
  /\ Len(previousSets.sets) = 2

\* Returned null although the record dated currentDate holds the exercise
\* with sets.
CurrentDateIsSkipped ==
  /\ PreviousReturned
  /\ previousSets.null
  /\ \E i \in 1..Len(history) :
       /\ history[i].date = currentDate
       /\ HasSets(FindExercise(history[i], exerciseIdArg))

(***************************************************************************)
(* Properties of the toasts.                                               *)
(***************************************************************************)
\* The toast with the id is in the list.
Shown(id) == \E i \in 1..Len(toasts) : toasts[i].id = id

\* The step is removeToast(id) or the timeout of the toast with the id.
RemovalOf(id) == RemoveToast(id) \/ TimerFires(id)

\* C26: every toast created by showToast gets an id different from every
\* other id of the session, stays in the list until removeToast or its
\* timeout removes it, and is eventually removed; removeToast(id) and a
\* timeout, also of a toast already removed, remove no toast of another id.
C26_ToastsAreUniqueAndDismissed ==
  /\ [](\A i, j \in 1..Len(created) : created[i] = created[j] => i = j)
  /\ [][\A id \in ToastIds :
          /\ (Shown(id) /\ ~Shown(id)') => RemovalOf(id)
          /\ RemovalOf(id) =>
               \A other \in ToastIds \ {id} : Shown(other) => Shown(other)']_vars
  /\ \A id \in ToastIds : Shown(id) ~> ~Shown(id)

\* Three toasts were created, the first was removed by removeToast while its
\* timeout is still pending, and the other two are shown.
C26_Witness ==
  /\ Len(created) = 3
  /\ ~Shown(created[1])
  /\ created[1] \in timers
  /\ Shown(created[2])
  /\ Shown(created[3])

(***************************************************************************)
(* Properties of the Records page.                                         *)
(***************************************************************************)
\* C21: every successful save, delete-record and delete-set mutation
\* invalidates both 'workoutRecords' and 'workoutRecordsPaged'; the PR map
\* the page renders with is always calculatePRs of the whole current
\* 'workoutRecords' result; a failed mutation invalidates nothing.
C21_MutationsInvalidateAndPRsAreRecomputed ==
  /\ [](prCalculation.value.prData = calculatePRs(AllRecords(rawAllRecords)).prData)
  /\ [][\A mutation \in Mutations :
          /\ MutationSucceeds(mutation) => PageQueries \subseteq invalidated'
          /\ MutationFails(mutation) => invalidated' = invalidated]_vars

\* The page shows the PR map of a fetched non-empty list, after a delete-set
\* mutation succeeded and both queries were fetched again, while the backend
\* already holds another list that the page is about to fetch.
C21_Witness ==
  /\ rawAllRecords.loaded
  /\ DOMAIN prCalculation.value.prData # {}
  /\ server # rawAllRecords.data
  /\ "workoutRecords" \in invalidated
  /\ "userStats" \notin invalidated

(***************************************************************************)
(* Properties of the window-listener registry.                             *)
(***************************************************************************)
\* The handlers registered for a type, none when the type has no entry.
HandlersOf(type) ==
  IF type \in DOMAIN windowHandlers THEN windowHandlers[type] ELSE {}

\* The listeners registered on window for a type.
NativeOf(type) == { p \in nativeListeners : p[1] = type }

\* C27: after any interleaving of addWindowListener calls and calls of the
\* returned unsubscribe functions, each event type has exactly one native
\* window listener if its handler set is non-empty and none otherwise, no
\* map entry remains for a type without handler, and an unsubscribe removes
\* only its own handler.
C27_OneNativeListenerPerUsedType ==
  /\ [](\A type \in EventTypes :
          /\ Cardinality(NativeOf(type)) = IF HandlersOf(type) # {} THEN 1 ELSE 0
          /\ type \in DOMAIN windowHandlers => windowHandlers[type] # {}
          /\ type \in DOMAIN windowListeners <=> type \in DOMAIN windowHandlers)
  /\ [][\A u \in unsubscribes :
          Unsubscribe(u) =>
            \A type \in EventTypes :
              HandlersOf(type)' =
                IF type = u.type THEN HandlersOf(type) \ {u.handler}
                ELSE HandlersOf(type)]_vars

\* A type was emptied and subscribed again, so that its listener is the
\* second one made for it, while the unsubscribe of the first handler is
\* still around.
C27_Witness ==
  /\ "click" \in DOMAIN windowListeners
  /\ windowListeners["click"] = 2
  /\ HandlersOf("click") = {2}
  /\ [type |-> "click", handler |-> 1] \in unsubscribes
  /\ HandlersOf("keydown") = {3}

(***************************************************************************)
(* Properties of the login recording.                                      *)
(***************************************************************************)
\* The requests of effects that read the day as their today and succeeded.
RecordedFor(day) ==
  { i \in 1..Len(requests) : requests[i].today = day /\ requests[i].outcome = "ok" }

\* C28: across any interleaving of Layout mounts on one calendar day, two
\* mounts whose effects run before the first request returns included, at
\* most one recordLogin request for the day is sent and succeeds;
\* lastLoginRecorded is written only when a request succeeded, and while it
\* is not today a mount sends a request, so a failed request is retried.
C28_LoginIsRecordedOncePerDay ==
  /\ [](\A d \in 1..Len(Days) : Cardinality(RecordedFor(Days[d])) <= 1)
  /\ [][/\ lastLoginRecorded' # lastLoginRecorded =>
             \E i \in 1..Len(requests) : RecordLoginSucceeds(i)
        /\ (MountLayout /\ lastLoginRecorded # Days[clock]) =>
             requests'[Len(requests')].outcome = "pending"]_vars

\* Two effects ran on the same day before the first request returned, and
\* both requests succeeded.
TwoRequestsForOneDay ==
  /\ Len(requests) >= 2
  /\ requests[1].today = requests[2].today
  /\ requests[1].outcome = "ok"
  /\ requests[2].outcome = "ok"

DiagonalSwipeCallsTwo ==
  /\ Len(calls) = 2
  /\ calls[1] \in {"onSwipeLeft", "onSwipeRight"}
  /\ calls[2] \in {"onSwipeUp", "onSwipeDown"}

(***************************************************************************)
(* Properties of the heatmap carousel.                                     *)
(***************************************************************************)
\* The step applies another period on a mobile layout when a timer fires.
PeriodChangeCompletes ==
  /\ PeriodTimerFires
  /\ isMobile
  /\ <<selectedYear, currentHalf, currentQuarter>>'
       # <<selectedYear, currentHalf, currentQuarter>>

\* C24: on the mobile layouts, when the 300 ms timer of a swipe has fired and
\* the new period is applied, the track is reset to translateX(-panelWidth)
\* and the frames that clear isAnimatingRef are requested, for every period
\* transition, a quarter change within one half-year included.
C24_TrackIsResetAfterPeriodChange ==
  [][PeriodChangeCompletes =>
       /\ trackTransform' = "centre"
       /\ clearFrames' > clearFrames]_vars

\* A swipe to the next quarter of the same half-year has completed and the
\* track still shows the panel after the selected quarter.
TrackLeftOnNextQuarter ==
  /\ isExtraSmall
  /\ periodTimers = <<>>
  /\ clearFrames = 0
  /\ trackTransform = "next"
  /\ isAnimatingRef

\* C25: whatever swipes, selector changes and viewport switches happen,
\* several swipes before a pending timer fires included, the selected year
\* stays within minYear..maxYear, and a swipe past the first or the last
\* period only snaps the track back to the centre.
C25_SelectedYearStaysInRange ==
  /\ [](selectedYear \in minYear..maxYear)
  /\ [](\A i \in 1..Len(periodTimers) : periodTimers[i].year \in minYear..maxYear)
  /\ [][\A swipe \in {"left", "right"} :
          (/\ HandleTouchEnd(swipe)
           /\ \/ swipe = "left" /\ ~canGoNext(selectedYear, currentHalf, currentQuarter)
              \/ swipe = "right" /\ ~canGoPrev(selectedYear, currentHalf, currentQuarter))
            => /\ trackTransform' = "centre"
               /\ periodTimers' = periodTimers]_vars

\* Two swipes towards the first period were made before the first timer
\* fired: both timers hold the first half-year of minYear.
C25_Witness ==
  /\ selectedYear = minYear
  /\ currentHalf = "second"
  /\ isMobile /\ ~isExtraSmall
  /\ Len(periodTimers) = 2
  /\ periodTimers[1] = Period(minYear, "first", 0)
  /\ periodTimers[2] = Period(minYear, "first", 0)
====
